---- MODULE Spec2Model ----
(***************************************************************************)
(* Retrieval-and-ranking core of the Cochrane RAG system.                  *)
(*                                                                         *)
(*   QueryFusionRetriever   src/retrieving/query_rewriter.py               *)
(*   MultiQueryRetriever    src/retrieving/multi_query_retriever.py        *)
(*   MedicalReranker        src/retrieving/reranker.py                     *)
(*                                                                         *)
(* Numbers.  Weights are in tenths (1.0 -> 10), distances and reranker     *)
(* scores in hundredths (0.05 -> 5).  A fusion score, a sum of             *)
(* weight / (rrf_k + rank), is kept exactly as the integer                 *)
(* weight * ScoreDen / (rrf_k + rank) summed, ScoreDen being a common      *)
(* multiple of every denominator.  A Python dict is a sequence of          *)
(* [key, value] records in insertion order.                                *)
(***************************************************************************)
EXTENDS Integers, Sequences, FiniteSets, TLC

VARIABLES
    \* QueryFusionRetriever
    qf_pc,            \* "none" | "idle" | "search" | "done"
    qf_final_k,       \* self.final_k
    qf_top_k,         \* argument top_k of retrieve
    variants,         \* rewriter.rewrite_query(query, num_variants=2)
    qf_i,             \* position of the for loop over variants
    qf_searched,      \* what each search call did: [ok, results]
    qf_all_results,   \* all_results: chunk_id -> RetrievalResult
    variant_ranks,    \* variant_ranks: chunk_id -> list of (rank, weight)
    fusion_scores,    \* fusion_scores: chunk_id -> rrf_score
    fused_results     \* the list retrieve returns

VARIABLES
    \* MultiQueryRetriever
    mq_pc,            \* "none" | "idle" | "single" | "multi" | "done" | "raised"
    mq_top_k,         \* argument top_k of retrieve
    sub_queries,      \* decomposer.decompose(query), cut to max_subqueries
    mq_i,             \* position of the for loop over sub_queries
    mq_searched,      \* what each search call did: [ok, results]
    mq_all_results,   \* all_results, a list
    final_results     \* the list retrieve returns

VARIABLES
    \* MultiQueryRetriever._merge_and_deduplicate on its own
    md_pc,            \* "none" | "call" | "done"
    md_results,       \* argument results
    md_merged         \* the list it returns

VARIABLES
    \* MedicalReranker
    rr_pc,            \* "none" | "new" | "ready" | "raised" | "done"
    rr_weights,       \* weight_quality .. weight_semantic, each num / den
    rr_documents,     \* argument documents of rerank
    rr_query,         \* what rerank detects in query: intent, statistical
    rr_top_k,         \* argument top_k of rerank, -1 for None
    rr_scored         \* the list rerank returns

VARIABLES
    \* HybridReranker and its CrossEncoderReranker
    hy_pc,            \* "none" | "idle" | "stage2" | "done"
    ce_available,     \* self.cross_encoder.available
    stage1_docs,      \* what medical_reranker.rerank returned
    ce_calls,         \* what each scoring request did: "ok" | "non200" | "raised"
    ce_scored_docs,   \* scored_docs of _rerank_hf_api: (doc, score)
    final_docs        \* the list HybridReranker.rerank returns

VARIABLES
    \* MedicalRAGChain
    rc_pc,            \* "none" | "idle" | "single" | "multi" | "retrieved" | "ranked" | "done"
                      \*   | "raised" | "generate_raised"
    rc_reranker,      \* self.reranker is given
    rc_sub_queries,   \* the sub-queries retrieve works on
    rc_i,             \* position of retrieve's loop over the sub-queries
    rc_all_results,   \* all_results of retrieve
    rc_trace,         \* the calls and stages of the request so far, in order
    retrieval_results, \* what multi_query_retriever.retrieve returned
    rc_documents,     \* documents of invoke, as metadata
    response          \* the dictionary invoke returns

VARIABLES
    \* MedicalQueryRetriever
    lr_pc,            \* "none" | "ready"
    lr_filters,       \* self.statistical_only, self.section_filter, self.quality_filter
    lr_query,         \* the keywords of the last query
    lr_applied,       \* the filters the last search was called with
    lr_count          \* queries processed so far

VARIABLES
    \* MedicalQueryDecomposer
    dc_pc,            \* "none" | "idle" | "done"
    dc_enable_llm,    \* self.enable_llm
    dc_query,         \* the query, as the set of the phrases it contains
    dc_llm,           \* what the LLM call did, "" when it was not made
    dc_sub_queries    \* the list decompose returns

VARIABLES
    \* MedicalQueryRewriter
    rw_pc,            \* "none" | "idle" | "llm" | "hyde" | "done"
    rw_enabled,       \* self.enable_synonyms, self.enable_llm, self.enable_hyde
    rw_num_variants,  \* argument num_variants of rewrite_query
    rw_calls,         \* what each generation-service call did, in order
    rw_variants       \* variants of rewrite_query

VARIABLES
    \* CochraneRetriever.search from the enrichment on
    en_pc,            \* "none" | "enrich" | "done" | "raised"
    en_quality_grade, \* argument quality_grade of search, "" for None
    en_limit,         \* argument limit of search
    en_results,       \* results of search
    en_i,             \* position of the enrichment loop in results
    en_returned       \* the list search returns

VARIABLES
    \* IndexingPipeline
    ix_pc,            \* "none" | "start" | "loop" | "done"
    ix_method,        \* "index_processed_documents" | "batch_index"
    ix_skip_processed, \* argument skip_processed
    ix_files,         \* the document_id of each file still to go through, in order
    ix_history,       \* document ids in the processing history
    ix_log,           \* what the run did with each file it went through
    ix_stats          \* self.stats

qf_vars == <<qf_pc, qf_final_k, qf_top_k, variants, qf_i, qf_searched,
             qf_all_results, variant_ranks, fusion_scores, fused_results>>

mq_vars == <<mq_pc, mq_top_k, sub_queries, mq_i, mq_searched, mq_all_results,
             final_results>>

md_vars == <<md_pc, md_results, md_merged>>

rr_vars == <<rr_pc, rr_weights, rr_documents, rr_query, rr_top_k, rr_scored>>

hy_vars == <<hy_pc, ce_available, stage1_docs, ce_calls, ce_scored_docs, final_docs>>

rc_vars == <<rc_pc, rc_reranker, rc_sub_queries, rc_i, rc_all_results, rc_trace,
             retrieval_results, rc_documents, response>>

lr_vars == <<lr_pc, lr_filters, lr_query, lr_applied, lr_count>>

dc_vars == <<dc_pc, dc_enable_llm, dc_query, dc_llm, dc_sub_queries>>

rw_vars == <<rw_pc, rw_enabled, rw_num_variants, rw_calls, rw_variants>>

en_vars == <<en_pc, en_quality_grade, en_limit, en_results, en_i, en_returned>>

ix_vars == <<ix_pc, ix_method, ix_skip_processed, ix_files, ix_history, ix_log, ix_stats>>

vars == <<qf_vars, mq_vars, md_vars, rr_vars, hy_vars, rc_vars, lr_vars, dc_vars, rw_vars, en_vars, ix_vars>>

\* what the steps of one component leave alone
qf_others == <<mq_vars, md_vars, rr_vars, hy_vars, rc_vars, lr_vars, dc_vars, rw_vars, en_vars, ix_vars>>
mq_others == <<qf_vars, md_vars, rr_vars, hy_vars, rc_vars, lr_vars, dc_vars, rw_vars, en_vars, ix_vars>>
md_others == <<qf_vars, mq_vars, rr_vars, hy_vars, rc_vars, lr_vars, dc_vars, rw_vars, en_vars, ix_vars>>
rr_others == <<qf_vars, mq_vars, md_vars, hy_vars, rc_vars, lr_vars, dc_vars, rw_vars, en_vars, ix_vars>>
hy_others == <<qf_vars, mq_vars, md_vars, rr_vars, rc_vars, lr_vars, dc_vars, rw_vars, en_vars, ix_vars>>
rc_others == <<qf_vars, mq_vars, md_vars, rr_vars, hy_vars, lr_vars, dc_vars, rw_vars, en_vars, ix_vars>>
lr_others == <<qf_vars, mq_vars, md_vars, rr_vars, hy_vars, rc_vars, dc_vars, rw_vars, en_vars, ix_vars>>
dc_others == <<qf_vars, mq_vars, md_vars, rr_vars, hy_vars, rc_vars, lr_vars, rw_vars, en_vars, ix_vars>>
rw_others == <<qf_vars, mq_vars, md_vars, rr_vars, hy_vars, rc_vars, lr_vars, dc_vars, en_vars, ix_vars>>
en_others == <<qf_vars, mq_vars, md_vars, rr_vars, hy_vars, rc_vars, lr_vars, dc_vars, rw_vars, ix_vars>>
ix_others == <<qf_vars, mq_vars, md_vars, rr_vars, hy_vars, rc_vars, lr_vars, dc_vars, rw_vars, en_vars>>

----------------------------------------------------------------------------
(* Bounds of the model *)

\* limit passed to every variant search (self.k_per_variant)
K_PER_VARIANT == 3
\* longest list of query variants one request is explored with
MaxVariants == 3
\* longest list a variant search returns short of a full page
MaxVariantList == 2
\* most candidates one request gets back in lists short of a full page
MaxRetrieved == 3
\* self.final_k the QueryFusionRetriever is constructed with
FinalK == 1

\* most sub-queries the decomposer hands back
MaxDecomposed == 3
\* self.max_subqueries the MultiQueryRetriever is constructed with
MAX_SUBQUERIES == 2
\* longest list a sub-query search returns short of a full page
MaxShortList == 2
\* most candidates one request gets back in lists short of a full page
MaxSubRetrieved == 2
\* longest argument of _merge_and_deduplicate explored on its own
MaxMergeInput == 2
\* longest list of documents handed to rerank
MaxDocuments == 2
\* longest list of documents handed to HybridReranker.rerank
MaxHybridDocuments == 3
\* most candidates the searches of one MedicalRAGChain request return
MaxChainRetrieved == 2
\* most queries one MedicalQueryRetriever is followed through
MaxQueries == 3
\* most phrases of the vocabulary one query contains
MaxPhrases == 3
\* longest list of sub-queries the LLM answers with
MaxLLMItems == 2
\* largest num_variants rewrite_query is given
MaxNumVariants == 2
\* most non-empty lines a reformulation answer holds
MaxLines == 3
\* most results one search enriches
MaxEnriched == 2
\* most files one indexing run goes through
MaxFiles == 2
\* self.stage1_top_k and self.stage2_top_k the HybridReranker is constructed with
STAGE1_TOP_K == 2
STAGE2_TOP_K == 1

(* Program constants *)
RRF_K == 60
NUM_VARIANTS == 2
TOP_K_DEFAULT == 10
K_PER_SUBQUERY == 5
\* 0.05, in hundredths
SIMILAR_DISTANCE == 5
\* MedicalReranker.WEIGHT_*, in hundredths
WEIGHT_QUALITY == 30
WEIGHT_STATISTICAL == 20
WEIGHT_SECTION == 20
WEIGHT_SEMANTIC == 30
\* metadata.get("relevance_score", 0.5)
DEFAULT_RELEVANCE == 50
\* the score of a section off the priority list, and the step down the list
SECTION_DEFAULT == 40
SECTION_STEP == 15

ChunkIds == {"w", "x", "y", "z"}
TopKs == {2, TOP_K_DEFAULT}
Priorities == {1, 2, 3}

----------------------------------------------------------------------------
(* Sequences and dicts *)

SeqsUpTo(S, n) == UNION {[1..k -> S] : k \in 0..n}

Take(s, n) == IF n >= Len(s) THEN s ELSE SubSeq(s, 1, n)

Min(a, b) == IF a <= b THEN a ELSE b

Abs(a) == IF a < 0 THEN 0 - a ELSE a

DictHas(d, k) == \E i \in 1..Len(d) : d[i].key = k

DictGet(d, k) == d[CHOOSE i \in 1..Len(d) : d[i].key = k].value

\* d[k] = v: an existing key keeps its position, a new key goes last
DictSet(d, k, v) ==
    IF DictHas(d, k)
    THEN [i \in 1..Len(d) |-> IF d[i].key = k THEN [key |-> k, value |-> v] ELSE d[i]]
    ELSE Append(d, [key |-> k, value |-> v])

RECURSIVE SumSeq(_)
SumSeq(s) == IF s = <<>> THEN 0 ELSE Head(s) + SumSeq(Tail(s))

RECURSIVE ProdRange(_, _)
ProdRange(a, b) == IF a > b THEN 1 ELSE a * ProdRange(a + 1, b)

ChunkIdsOf(results) == [i \in 1..Len(results) |-> results[i].chunk_id]

----------------------------------------------------------------------------
(* The index: what one search call can return *)

\* A search for the i-th unit of a request returns the chunks `ids`, best
\* first; each unit embeds differently, so the same chunk comes back at
\* another distance under another unit, the later unit the closer.
IndexResults(ids, i) ==
    [r \in 1..Len(ids) |->
        [chunk_id |-> ids[r], distance |-> 50 - 10 * i + (r - 1)]]

----------------------------------------------------------------------------
(* MedicalQueryRewriter.rewrite_query *)

\* syn: the synonym expansion changed the query; nllm: lines the
\* reformulation call produced (0 when it failed); hyde: the hypothetical
\* answer came back and differs from the query
RewriteQuery(syn, nllm, hyde) ==
    <<[strategy |-> "original", weight |-> 10]>>
    \o (IF syn THEN <<[strategy |-> "synonyms", weight |-> 8]>> ELSE <<>>)
    \o [j \in 1..Min(nllm, NUM_VARIANTS) |-> [strategy |-> "llm_reformulation", weight |-> 9]]
    \o (IF hyde THEN <<[strategy |-> "hyde", weight |-> 9]>> ELSE <<>>)

----------------------------------------------------------------------------
(* QueryFusionRetriever *)

\* common denominator of weight / (rrf_k + rank), rank < K_PER_VARIANT
ScoreDen == ProdRange(RRF_K, RRF_K + K_PER_VARIANT - 1)

\* sum(weight / (self.rrf_k + rank) for rank, weight in ranks), 0-based ranks
RRFScoreRankFromOne(ranks) ==
    SumSeq([j \in 1..Len(ranks) |-> ranks[j][2] * (ScoreDen \div (RRF_K + ranks[j][1] + 1))])

RRFScore(ranks) ==
    SumSeq([j \in 1..Len(ranks) |-> ranks[j][2] * (ScoreDen \div (RRF_K + ranks[j][1]))])

\* sorted(items, key=value, reverse=True): descending, equal values keep
\* their order
InsertDescBeforeEqual(s, e) ==
    LET n == Cardinality({i \in 1..Len(s) : s[i].value > e.value})
    IN  SubSeq(s, 1, n) \o <<e>> \o SubSeq(s, n + 1, Len(s))

InsertDesc(s, e) ==
    LET n == Cardinality({i \in 1..Len(s) : s[i].value >= e.value})
    IN  SubSeq(s, 1, n) \o <<e>> \o SubSeq(s, n + 1, Len(s))

RECURSIVE SortedDescFrom(_, _)
SortedDescFrom(d, acc) ==
    IF d = <<>> THEN acc ELSE SortedDescFrom(Tail(d), InsertDesc(acc, Head(d)))

SortedDesc(d) == SortedDescFrom(d, <<>>)

\* the same loop with all_results[chunk_id] = result on every occurrence
RECURSIVE StoreRanksKeepLatest(_, _, _, _, _)
StoreRanksKeepLatest(results, r, weight, all, ranks) ==
    IF r > Len(results) THEN [all |-> all, ranks |-> ranks]
    ELSE LET c == results[r].chunk_id
             all1 == DictSet(all, c, results[r])
             ranks1 == IF DictHas(all, c) THEN ranks ELSE DictSet(ranks, c, <<>>)
             ranks2 == DictSet(ranks1, c, Append(DictGet(ranks1, c), <<r - 1, weight>>))
         IN  StoreRanksKeepLatest(results, r + 1, weight, all1, ranks2)

\* the body of `for rank, result in enumerate(results)`, from position r on
RECURSIVE StoreRanks(_, _, _, _, _)
StoreRanks(results, r, weight, all, ranks) ==
    IF r > Len(results) THEN [all |-> all, ranks |-> ranks]
    ELSE LET c == results[r].chunk_id
             all1 == IF DictHas(all, c) THEN all ELSE DictSet(all, c, results[r])
             ranks1 == IF DictHas(all, c) THEN ranks ELSE DictSet(ranks, c, <<>>)
             ranks2 == DictSet(ranks1, c, Append(DictGet(ranks1, c), <<r - 1, weight>>))
         IN  StoreRanks(results, r + 1, weight, all1, ranks2)

\* Steps 3 and 4 of retrieve
FusionScores(ranks) ==
    [j \in 1..Len(ranks) |-> [key |-> ranks[j].key, value |-> RRFScore(ranks[j].value)]]

Fuse(scores, all, top_k, final_k) ==
    LET sorted_chunks == Take(SortedDesc(scores), top_k)
    IN  [j \in 1..Len(sorted_chunks) |-> DictGet(all, sorted_chunks[j].key)]

\* what one variant search returns: short lists over three of the chunks,
\* and the full pages of three chunks
VariantPages == {<<"x", "y", "z">>, <<"y", "x", "w">>}

VariantLists == SeqsUpTo(ChunkIds \ {"w"}, MaxVariantList) \cup VariantPages

\* the candidates a request has got back so far, full pages aside
RECURSIVE Retrieved(_, _)
Retrieved(searched, pages) ==
    IF searched = <<>> THEN 0
    ELSE (IF Head(searched).results \in pages THEN 0 ELSE Len(Head(searched).results))
         + Retrieved(Tail(searched), pages)

QF_Fresh ==
    /\ qf_final_k = FinalK
    /\ qf_top_k = 0
    /\ variants = <<>>
    /\ qf_i = 0
    /\ qf_searched = <<>>
    /\ qf_all_results = <<>>
    /\ variant_ranks = <<>>
    /\ fusion_scores = <<>>
    /\ fused_results = <<>>

\* a QueryFusionRetriever was constructed / none was
QF_Init == qf_pc = "idle" /\ QF_Fresh

QF_None == qf_pc = "none" /\ QF_Fresh

\* retrieve(query, top_k): Step 1
QF_Retrieve ==
    /\ qf_pc = "idle"
    /\ \E syn \in BOOLEAN, nllm \in 0..NUM_VARIANTS, hyde \in BOOLEAN, top_k \in TopKs :
          LET vs == RewriteQuery(syn, nllm, hyde)
          IN  /\ Len(vs) <= MaxVariants
              /\ variants' = [j \in 1..Len(vs) |-> [weight |-> vs[j].weight]]
              /\ qf_top_k' = top_k
    /\ qf_pc' = "search"
    /\ qf_i' = 1
    /\ UNCHANGED <<qf_final_k, qf_searched, qf_all_results, variant_ranks,
                   fusion_scores, fused_results>>
    /\ UNCHANGED qf_others

\* Step 2, one iteration whose search returns
QF_SearchOk ==
    /\ qf_pc = "search"
    /\ qf_i <= Len(variants)
    /\ \E ids \in VariantLists :
          /\ Len(ids) <= K_PER_VARIANT
          /\ ids \notin VariantPages =>
                Retrieved(qf_searched, {IndexResults(pg, i) : pg \in VariantPages, i \in 1..Len(variants)})
                    + Len(ids) <= MaxRetrieved
          /\ LET results == IndexResults(ids, qf_i)
                 st == StoreRanks(results, 1, variants[qf_i].weight,
                                  qf_all_results, variant_ranks)
             IN  /\ qf_searched' = Append(qf_searched, [ok |-> TRUE, results |-> results])
                 /\ qf_all_results' = st.all
                 /\ variant_ranks' = st.ranks
    /\ qf_i' = qf_i + 1
    /\ UNCHANGED <<qf_pc, qf_final_k, qf_top_k, variants, fusion_scores, fused_results>>
    /\ UNCHANGED qf_others

\* Step 2, one iteration whose search raises: except ...: continue
QF_SearchFailBreak ==
    /\ qf_pc = "search"
    /\ qf_i <= Len(variants)
    /\ qf_searched' = Append(qf_searched, [ok |-> FALSE, results |-> <<>>])
    /\ qf_i' = Len(variants) + 1
    /\ UNCHANGED <<qf_pc, qf_final_k, qf_top_k, variants, qf_all_results,
                   variant_ranks, fusion_scores, fused_results>>
    /\ UNCHANGED qf_others

QF_SearchFail ==
    /\ qf_pc = "search"
    /\ qf_i <= Len(variants)
    /\ qf_searched' = Append(qf_searched, [ok |-> FALSE, results |-> <<>>])
    /\ qf_i' = qf_i + 1
    /\ UNCHANGED <<qf_pc, qf_final_k, qf_top_k, variants, qf_all_results,
                   variant_ranks, fusion_scores, fused_results>>
    /\ UNCHANGED qf_others

\* if not all_results: return []
QF_ReturnEmpty ==
    /\ qf_pc = "search"
    /\ qf_i > Len(variants)
    /\ qf_all_results = <<>>
    /\ fused_results' = <<>>
    /\ qf_pc' = "done"
    /\ UNCHANGED <<qf_final_k, qf_top_k, variants, qf_i, qf_searched,
                   qf_all_results, variant_ranks, fusion_scores>>
    /\ UNCHANGED qf_others

\* Steps 3 and 4, return fused_results
QF_Fuse ==
    /\ qf_pc = "search"
    /\ qf_i > Len(variants)
    /\ qf_all_results # <<>>
    /\ fusion_scores' = FusionScores(variant_ranks)
    /\ fused_results' = Fuse(FusionScores(variant_ranks), qf_all_results,
                             qf_top_k, qf_final_k)
    /\ qf_pc' = "done"
    /\ UNCHANGED <<qf_final_k, qf_top_k, variants, qf_i, qf_searched,
                   qf_all_results, variant_ranks>>
    /\ UNCHANGED qf_others

QF_Next ==
    \/ QF_Retrieve
    \/ QF_SearchOk
    \/ QF_SearchFail
    \/ QF_ReturnEmpty
    \/ QF_Fuse

----------------------------------------------------------------------------
(* MultiQueryRetriever *)

\* the intents a sub-query is tagged with here, in the order sorted() gives
IntentOrder == <<"effectiveness", "safety">>

Intents == {IntentOrder[j] : j \in 1..Len(IntentOrder)}

\* sub-queries with any priority from 1 to 3
DecomposeOutputsAnyPriority ==
    {sq \in SeqsUpTo([intent : Intents, priority : Priorities], MaxDecomposed) : Len(sq) >= 1}

\* MedicalQueryDecomposer.decompose: one to MaxDecomposed sub-queries, each
\* with the intent the decomposition gave it and priority 1
DecomposeOutputs ==
    {sq \in SeqsUpTo([intent : Intents, priority : {1}], MaxDecomposed) : Len(sq) >= 1}

\* results of one sub-query search: short lists over two chunks, and full
\* pages of k_per_subquery distinct chunks, near ones and far ones
MQChunkIds == {"a", "b"}

MQDistances == {10, 12, 30}

PageIds == <<<<"c1", "c2", "c3", "c4", "c5">>, <<"d1", "d2", "d3", "d4", "d5">>>>

Page(g, base) ==
    [r \in 1..K_PER_SUBQUERY |-> [chunk_id |-> PageIds[g][r], distance |-> base + r]]

FullPages == {Page(1, 30), Page(2, 10)}

SubQueryLists ==
    SeqsUpTo([chunk_id : MQChunkIds, distance : MQDistances \ {30}], MaxShortList) \cup FullPages

\* result.sub_query_intent = sq.intent; result.sub_query_priority = sq.priority
Tagged(results, sq) ==
    [r \in 1..Len(results) |->
        [chunk_id |-> results[r].chunk_id, distance |-> results[r].distance,
         sub_query_intent |-> sq.intent, sub_query_priority |-> sq.priority]]

\* one pass of the loop of _merge_and_deduplicate over `result`
MergeOne(seen, result) ==
    IF DictHas(seen, result.chunk_id)
    THEN LET existing == DictGet(seen, result.chunk_id)
         IN  IF result.distance < existing.distance
             THEN DictSet(seen, result.chunk_id, result)
             ELSE IF /\ Abs(result.distance - existing.distance) < SIMILAR_DISTANCE
                     /\ result.sub_query_priority < existing.sub_query_priority
                  THEN DictSet(seen, result.chunk_id, result)
                  ELSE seen
    ELSE DictSet(seen, result.chunk_id, result)

RECURSIVE MergeFrom(_, _)
MergeFrom(results, seen) ==
    IF results = <<>> THEN seen
    ELSE MergeFrom(Tail(results), MergeOne(seen, Head(results)))

\* _merge_and_deduplicate: list(seen.values())
MergeAndDeduplicate(results) ==
    LET seen == MergeFrom(results, <<>>)
    IN  [j \in 1..Len(seen) |-> seen[j].value]

\* list.sort(key=lambda r: r.distance): ascending, equal distances keep
\* their order
InsertByDistance(s, e) ==
    LET n == Cardinality({i \in 1..Len(s) : s[i].distance <= e.distance})
    IN  SubSeq(s, 1, n) \o <<e>> \o SubSeq(s, n + 1, Len(s))

RECURSIVE SortedByDistanceFrom(_, _)
SortedByDistanceFrom(s, acc) ==
    IF s = <<>> THEN acc
    ELSE SortedByDistanceFrom(Tail(s), InsertByDistance(acc, Head(s)))

SortedByDistance(s) == SortedByDistanceFrom(s, <<>>)

\* intent_groups[intent], sorted by distance
IntentGroup(results, intent) ==
    SortedByDistance(SelectSeq(results, LAMBDA r : r.sub_query_intent = intent))

\* sorted(intent_groups.keys())
SortedIntents(results) ==
    SelectSeq(IntentOrder, LAMBDA t : \E j \in 1..Len(results) : results[j].sub_query_intent = t)

\* for intent in sorted(...): if i < len(group): merged.append(group[i])
RECURSIVE Interleave(_, _, _, _)
Interleave(results, intents, i, max_len) ==
    IF i > max_len THEN <<>>
    ELSE LET row == SelectSeq(intents, LAMBDA t : i <= Len(IntentGroup(results, t)))
         IN  [j \in 1..Len(row) |-> IntentGroup(results, row[j])[i]]
             \o Interleave(results, intents, i + 1, max_len)

\* max(len(group) for group in intent_groups.values())
MaxGroupLen(results, intents) ==
    CHOOSE n \in 0..Len(results) :
        /\ \A j \in 1..Len(intents) : Len(IntentGroup(results, intents[j])) <= n
        /\ \E j \in 1..Len(intents) : Len(IntentGroup(results, intents[j])) = n

\* the final pass: first occurrence of every chunk_id, in order
RECURSIVE Unique(_, _)
Unique(merged, seen) ==
    IF merged = <<>> THEN <<>>
    ELSE IF Head(merged).chunk_id \in seen
         THEN Unique(Tail(merged), seen)
         ELSE <<Head(merged)>> \o Unique(Tail(merged), seen \cup {Head(merged).chunk_id})

\* the candidates by distance alone, whatever their intent
SortByDistanceOnly(results) == SortedByDistance(results)

\* _sort_by_relevance_and_diversity
SortByRelevanceAndDiversity(results) ==
    LET intents == SortedIntents(results)
    IN  IF Len(intents) = 1
        THEN IntentGroup(results, intents[1])
        ELSE Unique(Interleave(results, intents, 1, MaxGroupLen(results, intents)), {})

MQ_Fresh ==
    /\ mq_top_k = 0
    /\ sub_queries = <<>>
    /\ mq_i = 0
    /\ mq_searched = <<>>
    /\ mq_all_results = <<>>
    /\ final_results = <<>>

\* a MultiQueryRetriever was constructed / none was
MQ_Init == mq_pc = "idle" /\ MQ_Fresh

MQ_None == mq_pc = "none" /\ MQ_Fresh

\* retrieve(query, top_k): Step 1 and the cut to max_subqueries
MQ_Retrieve ==
    /\ mq_pc = "idle"
    /\ \E sqs \in DecomposeOutputs, top_k \in TopKs :
          /\ sub_queries' = Take(sqs, MAX_SUBQUERIES)
          /\ mq_top_k' = top_k
          /\ mq_pc' = IF Len(Take(sqs, MAX_SUBQUERIES)) = 1 THEN "single" ELSE "multi"
    /\ mq_i' = 1
    /\ UNCHANGED <<mq_searched, mq_all_results, final_results>>
    /\ UNCHANGED mq_others

\* Step 2: the one search returns, with limit=top_k; its list is returned
MQ_SingleSearchOk ==
    /\ mq_pc = "single"
    /\ \E results \in SubQueryLists :
          /\ Len(results) <= mq_top_k
          /\ mq_searched' = <<[ok |-> TRUE, results |-> results]>>
          /\ final_results' = Tagged(results, sub_queries[1])
    /\ mq_pc' = "done"
    /\ mq_i' = 2
    /\ UNCHANGED <<mq_top_k, sub_queries, mq_all_results>>
    /\ UNCHANGED mq_others

\* Step 2: the one search raises, outside any try
MQ_SingleSearchFail ==
    /\ mq_pc = "single"
    /\ mq_searched' = <<[ok |-> FALSE, results |-> <<>>]>>
    /\ mq_pc' = "raised"
    /\ mq_i' = 2
    /\ UNCHANGED <<mq_top_k, sub_queries, mq_all_results, final_results>>
    /\ UNCHANGED mq_others

\* Step 3, one iteration whose search returns
MQ_SearchOk ==
    /\ mq_pc = "multi"
    /\ mq_i <= Len(sub_queries)
    /\ \E results \in SubQueryLists :
          /\ Len(results) <= K_PER_SUBQUERY
          /\ results \notin FullPages =>
                Retrieved(mq_searched, FullPages) + Len(results) <= MaxSubRetrieved
          /\ mq_searched' = Append(mq_searched, [ok |-> TRUE, results |-> results])
          /\ mq_all_results' = mq_all_results \o Tagged(results, sub_queries[mq_i])
    /\ mq_i' = mq_i + 1
    /\ UNCHANGED <<mq_pc, mq_top_k, sub_queries, final_results>>
    /\ UNCHANGED mq_others

\* Step 3, one iteration whose search raises: except ...: continue
MQ_SearchFail ==
    /\ mq_pc = "multi"
    /\ mq_i <= Len(sub_queries)
    /\ mq_searched' = Append(mq_searched, [ok |-> FALSE, results |-> <<>>])
    /\ mq_i' = mq_i + 1
    /\ UNCHANGED <<mq_pc, mq_top_k, sub_queries, mq_all_results, final_results>>
    /\ UNCHANGED mq_others

\* if not all_results: return []
MQ_ReturnEmpty ==
    /\ mq_pc = "multi"
    /\ mq_i > Len(sub_queries)
    /\ mq_all_results = <<>>
    /\ final_results' = <<>>
    /\ mq_pc' = "done"
    /\ UNCHANGED <<mq_top_k, sub_queries, mq_i, mq_searched, mq_all_results>>
    /\ UNCHANGED mq_others

\* Steps 4 to 6
MQ_MergeSortReturn ==
    /\ mq_pc = "multi"
    /\ mq_i > Len(sub_queries)
    /\ mq_all_results # <<>>
    /\ final_results' =
          Take(SortByRelevanceAndDiversity(MergeAndDeduplicate(mq_all_results)), mq_top_k)
    /\ mq_pc' = "done"
    /\ UNCHANGED <<mq_top_k, sub_queries, mq_i, mq_searched, mq_all_results>>
    /\ UNCHANGED mq_others

MQ_Next ==
    \/ MQ_Retrieve
    \/ MQ_SingleSearchOk
    \/ MQ_SingleSearchFail
    \/ MQ_SearchOk
    \/ MQ_SearchFail
    \/ MQ_ReturnEmpty
    \/ MQ_MergeSortReturn

----------------------------------------------------------------------------
(* _merge_and_deduplicate applied to any list of tagged results *)

TaggedResults ==
    [chunk_id : MQChunkIds, distance : MQDistances,
     sub_query_intent : Intents, sub_query_priority : Priorities]

MD_Fresh == md_results = <<>> /\ md_merged = <<>>

MD_None == md_pc = "none" /\ MD_Fresh

MD_Init ==
    /\ md_pc = "call"
    /\ md_results \in SeqsUpTo(TaggedResults, MaxMergeInput)
    /\ md_merged = <<>>

MD_Merge ==
    /\ md_pc = "call"
    /\ md_merged' = MergeAndDeduplicate(md_results)
    /\ md_pc' = "done"
    /\ UNCHANGED md_results
    /\ UNCHANGED md_others

MD_Next == MD_Merge

----------------------------------------------------------------------------
(* MedicalReranker *)

QUALITY_SCORES == ("A" :> 100) @@ ("B" :> 70) @@ ("C" :> 40) @@ ("" :> 50)

SECTION_PRIORITIES ==
    [effectiveness |-> <<"results", "authors_conclusions", "main_results">>,
     safety |-> <<"results", "discussion", "adverse_effects">>,
     methodology |-> <<"methods", "search_methods", "data_collection">>,
     statistical |-> <<"results", "statistical_analysis">>,
     conclusion |-> <<"authors_conclusions", "discussion">>,
     background |-> <<"background", "abstract">>,
     general |-> <<"abstract", "main_results", "authors_conclusions">>]

\* str.upper() and str.lower() on the strings documents carry here
Upper(g) == IF g = "c" THEN "C" ELSE g

Lower(t) == IF t = "Discussion" THEN "discussion" ELSE t

\* `p in t`, p a substring of t, for lower-case section names
Contains(t, p) ==
    \/ t = p
    \/ <<t, p>> \in {<<"main_results", "results">>, <<"search_methods", "methods">>}

\* _score_quality with every grade taken as unknown
ScoreQualityUnknown(metadata) == 50

\* _score_quality
ScoreQuality(metadata) ==
    LET quality_grade == Upper(metadata.quality_grade)
    IN  IF quality_grade \in DOMAIN QUALITY_SCORES THEN QUALITY_SCORES[quality_grade]
        ELSE 50

\* _score_statistical_relevance
ScoreStatisticalRelevance(metadata, is_statistical_query) ==
    IF is_statistical_query
    THEN (IF metadata.is_statistical THEN 100 ELSE 30)
    ELSE (IF metadata.is_statistical THEN 60 ELSE 50)

\* _score_section_relevance
ScoreSectionRelevance(metadata, query_intent) ==
    LET section == Lower(metadata.section_name)
        relevant_sections ==
            IF query_intent \in DOMAIN SECTION_PRIORITIES
            THEN SECTION_PRIORITIES[query_intent]
            ELSE SECTION_PRIORITIES["general"]
        hits == {idx \in 1..Len(relevant_sections) : Contains(section, relevant_sections[idx])}
    IN  IF hits = {} THEN SECTION_DEFAULT
        ELSE 100 - (((CHOOSE idx \in hits : \A other \in hits : idx <= other) - 1) * SECTION_STEP)

\* metadata.get("relevance_score", 0.5)
SemanticScore(metadata) ==
    IF metadata.has_relevance THEN metadata.relevance_score ELSE DEFAULT_RELEVANCE

\* the loop body of rerank: one ScoredDocument; rerank_score is
\* rerank_num / (100 * weights.den)
ScoreDocument(doc, weights, query) ==
    LET quality_score == ScoreQuality(doc)
        statistical_score == ScoreStatisticalRelevance(doc, query.is_statistical)
        section_score == ScoreSectionRelevance(doc, query.intent)
        semantic_score == SemanticScore(doc)
    IN  [metadata |-> doc,
         score_breakdown |-> [quality |-> quality_score, statistical |-> statistical_score,
                              section |-> section_score, semantic |-> semantic_score],
         value |-> quality_score * weights.quality + statistical_score * weights.statistical
                   + section_score * weights.section + semantic_score * weights.semantic]

\* rerank: score, sort by rerank_score descending, cut to top_k if top_k
Rerank(documents, weights, query, top_k) ==
    LET scored_docs ==
            SortedDesc([j \in 1..Len(documents) |-> ScoreDocument(documents[j], weights, query)])
    IN  IF top_k > 0 THEN Take(scored_docs, top_k) ELSE scored_docs

\* metadata of the documents handed to rerank; relevance_score is
\* 1 - distance, below 0 for a cosine distance above 1
Documents ==
    [quality_grade : {"A", "C", "c"}, is_statistical : BOOLEAN,
     section_name : {"results", "main_results"},
     has_relevance : {TRUE}, relevance_score : {-40, 80}]
    \cup
    [quality_grade : {"A", "C", "c"}, is_statistical : BOOLEAN,
     section_name : {"results", "main_results"},
     has_relevance : {FALSE}, relevance_score : {0}]

Queries == [intent : {"effectiveness", "general"}, is_statistical : BOOLEAN]

RerankTopKs == {-1, 0, 1}

RR_Fresh ==
    /\ rr_documents = <<>>
    /\ rr_query = [intent |-> "general", is_statistical |-> FALSE]
    /\ rr_top_k = -1
    /\ rr_scored = <<>>

RR_None ==
    /\ rr_pc = "none"
    /\ rr_weights = [quality |-> 0, statistical |-> 0, section |-> 0, semantic |-> 0, den |-> 1]
    /\ RR_Fresh

\* MedicalReranker(weight_quality, ...): the four assignments are made
RR_Init ==
    /\ rr_pc = "new"
    /\ \E wq \in {0, WEIGHT_QUALITY}, ws \in {0, WEIGHT_STATISTICAL},
          wc \in {0, WEIGHT_SECTION}, wm \in {0, WEIGHT_SEMANTIC} :
          rr_weights = [quality |-> wq, statistical |-> ws, section |-> wc,
                        semantic |-> wm, den |-> 1]
    /\ RR_Fresh

\* MedicalReranker(): every weight is the class default
RR_DefaultInit ==
    /\ rr_pc = "new"
    /\ rr_weights = [quality |-> WEIGHT_QUALITY, statistical |-> WEIGHT_STATISTICAL,
                     section |-> WEIGHT_SECTION, semantic |-> WEIGHT_SEMANTIC, den |-> 1]
    /\ RR_Fresh

RawTotal ==
    rr_weights.quality + rr_weights.statistical + rr_weights.section + rr_weights.semantic

\* __init__, the normalization: each weight /= total
RR_Normalize ==
    /\ rr_pc = "new"
    /\ RawTotal # 0
    /\ rr_weights' = [rr_weights EXCEPT !.den = RawTotal]
    /\ rr_pc' = "ready"
    /\ UNCHANGED <<rr_documents, rr_query, rr_top_k, rr_scored>>
    /\ UNCHANGED rr_others

\* __init__, the normalization with total = 0: ZeroDivisionError
RR_NormalizeRaises ==
    /\ rr_pc = "new"
    /\ RawTotal = 0
    /\ rr_pc' = "raised"
    /\ UNCHANGED <<rr_weights, rr_documents, rr_query, rr_top_k, rr_scored>>
    /\ UNCHANGED rr_others

RR_Rerank ==
    /\ rr_pc = "ready"
    /\ \E documents \in SeqsUpTo(Documents, MaxDocuments), query \in Queries,
          top_k \in RerankTopKs :
          /\ rr_documents' = documents
          /\ rr_query' = query
          /\ rr_top_k' = top_k
          /\ rr_scored' = Rerank(documents, rr_weights, query, top_k)
    /\ rr_pc' = "done"
    /\ UNCHANGED rr_weights
    /\ UNCHANGED rr_others

RR_Next ==
    \/ RR_Normalize
    \/ RR_NormalizeRaises
    \/ RR_Rerank

\* the steps of a reranker whose raw weights do not sum to 0
RR_DefaultNext ==
    \/ RR_Normalize
    \/ RR_Rerank

----------------------------------------------------------------------------
(* HybridReranker over a MedicalReranker and a CrossEncoderReranker *)

\* the weights of MedicalReranker() after normalization
NormalizedDefaults ==
    [quality |-> WEIGHT_QUALITY, statistical |-> WEIGHT_STATISTICAL,
     section |-> WEIGHT_SECTION, semantic |-> WEIGHT_SEMANTIC,
     den |-> WEIGHT_QUALITY + WEIGHT_STATISTICAL + WEIGHT_SECTION + WEIGHT_SEMANTIC]

HybridDocuments ==
    [quality_grade : {"A", "C"}, is_statistical : {FALSE}, section_name : {"results"},
     has_relevance : {TRUE}, relevance_score : {40, 80}]

\* scores the cross-encoder service answers with, in hundredths
CE_Scores == {10, 90}

\* {"page_content": doc.content, "metadata": doc.metadata} for doc in stage1_docs
Stage1Dicts(scored) == [j \in 1..Len(scored) |-> scored[j].metadata]

\* [doc for doc, score in stage2_results]
DocsOf(scored) == [j \in 1..Len(scored) |-> scored[j].doc]

HY_Fresh ==
    /\ stage1_docs = <<>>
    /\ ce_calls = <<>>
    /\ ce_scored_docs = <<>>
    /\ final_docs = <<>>

HY_None == hy_pc = "none" /\ ce_available = FALSE /\ HY_Fresh

\* HybridReranker(): the CrossEncoderReranker found an API key or did not
HY_Init == hy_pc = "idle" /\ ce_available \in BOOLEAN /\ HY_Fresh

\* Stage 1: medical_reranker.rerank(documents, query, top_k=stage1_top_k)
HY_Stage1 ==
    /\ hy_pc = "idle"
    /\ \E documents \in SeqsUpTo(HybridDocuments, MaxHybridDocuments), query \in Queries :
          stage1_docs' = Rerank(documents, NormalizedDefaults, query, STAGE1_TOP_K)
    /\ hy_pc' = "stage2"
    /\ UNCHANGED <<ce_available, ce_calls, ce_scored_docs, final_docs>>
    /\ UNCHANGED hy_others

\* Stage 2, cross-encoder not available: stage1_dicts[:stage2_top_k]
HY_Unavailable ==
    /\ hy_pc = "stage2"
    /\ ~ce_available
    /\ final_docs' = Take(Stage1Dicts(stage1_docs), STAGE2_TOP_K)
    /\ hy_pc' = "done"
    /\ UNCHANGED <<ce_available, stage1_docs, ce_calls, ce_scored_docs>>
    /\ UNCHANGED hy_others

\* the document the loop of _rerank_hf_api is at
CE_Doc == Stage1Dicts(stage1_docs)[Len(ce_calls) + 1]

\* _rerank_hf_api, one iteration: the request answers 200 with a score
CE_ScoreOk ==
    /\ hy_pc = "stage2"
    /\ ce_available
    /\ Len(ce_calls) < Len(stage1_docs)
    /\ \E score \in CE_Scores :
          ce_scored_docs' = Append(ce_scored_docs, [doc |-> CE_Doc, value |-> score])
    /\ ce_calls' = Append(ce_calls, "ok")
    /\ UNCHANGED <<hy_pc, ce_available, stage1_docs, final_docs>>
    /\ UNCHANGED hy_others

\* _rerank_hf_api, one iteration: the request answers another status
CE_ScoreNon200 ==
    /\ hy_pc = "stage2"
    /\ ce_available
    /\ Len(ce_calls) < Len(stage1_docs)
    /\ ce_scored_docs' = Append(ce_scored_docs, [doc |-> CE_Doc, value |-> SemanticScore(CE_Doc)])
    /\ ce_calls' = Append(ce_calls, "non200")
    /\ UNCHANGED <<hy_pc, ce_available, stage1_docs, final_docs>>
    /\ UNCHANGED hy_others

\* _rerank_hf_api, one iteration: the request raises or times out
CE_ScoreRaises ==
    /\ hy_pc = "stage2"
    /\ ce_available
    /\ Len(ce_calls) < Len(stage1_docs)
    /\ ce_scored_docs' = Append(ce_scored_docs, [doc |-> CE_Doc, value |-> SemanticScore(CE_Doc)])
    /\ ce_calls' = Append(ce_calls, "raised")
    /\ UNCHANGED <<hy_pc, ce_available, stage1_docs, final_docs>>
    /\ UNCHANGED hy_others

\* _rerank_hf_api sorts by score and cuts to top_k; rerank keeps the documents
HY_Stage2Return ==
    /\ hy_pc = "stage2"
    /\ ce_available
    /\ Len(ce_calls) = Len(stage1_docs)
    /\ final_docs' =
          DocsOf(IF STAGE2_TOP_K > 0 THEN Take(SortedDesc(ce_scored_docs), STAGE2_TOP_K)
                 ELSE SortedDesc(ce_scored_docs))
    /\ hy_pc' = "done"
    /\ UNCHANGED <<ce_available, stage1_docs, ce_calls, ce_scored_docs>>
    /\ UNCHANGED hy_others

HY_Next ==
    \/ HY_Stage1
    \/ HY_Unavailable
    \/ CE_ScoreOk
    \/ CE_ScoreNon200
    \/ CE_ScoreRaises
    \/ HY_Stage2Return

----------------------------------------------------------------------------
(* MedicalRAGChain.invoke over MultiQueryRetriever, CochraneRetriever.search *)
(* and MedicalReranker                                                     *)

\* the index: chunk "a" is a PARAGRAPH chunk with a parent_chunk_id, every
\* other chunk is of a level that _enrich_with_hierarchical_context fetches
\* nothing for
ParagraphChunks == {"a"}

ChainLists == SeqsUpTo([chunk_id : MQChunkIds, distance : {10, 12}], MaxChainRetrieved)

Event(kind, chunk) == [kind |-> kind, chunk |-> chunk]

\* CochraneRetriever.search as the request sees it: the index query, then
\* one _get_chunk_by_id per PARAGRAPH result that has a parent
SearchEvents(results) ==
    LET HasParent(r) == r.chunk_id \in ParagraphChunks
        fetched == SelectSeq(results, HasParent)
    IN  <<Event("search", "")>>
            \o [j \in 1..Len(fetched) |-> Event("fetch_parent", fetched[j].chunk_id)]

\* _retrieval_results_to_documents: the metadata of each Document
RetrievalResultsToDocuments(results) ==
    [j \in 1..Len(results) |->
        [chunk_id |-> results[j].chunk_id, quality_grade |-> "A", is_statistical |-> FALSE,
         section_name |-> "results", has_relevance |-> TRUE,
         relevance_score |-> 100 - results[j].distance]]

RC_Fresh ==
    /\ rc_sub_queries = <<>>
    /\ rc_i = 0
    /\ rc_all_results = <<>>
    /\ rc_trace = <<>>
    /\ retrieval_results = <<>>
    /\ rc_documents = <<>>
    /\ response = [answer |-> "", sources |-> <<>>, num_sources |-> 0]

RC_None == rc_pc = "none" /\ rc_reranker = FALSE /\ RC_Fresh

\* MedicalRAGChain(llm, retriever, reranker=None or a MedicalReranker)
RC_Init == rc_pc = "idle" /\ rc_reranker \in BOOLEAN /\ RC_Fresh

\* invoke, retrieve Step 1: decompose, with or without a call of the LLM; a
\* query that does not warrant decomposition gives one sub-query, no call
RC_Retrieve ==
    /\ rc_pc = "idle"
    /\ \E sqs \in DecomposeOutputs, llm_called \in BOOLEAN :
          /\ ~llm_called => Len(sqs) = 1
          /\ rc_sub_queries' = Take(sqs, MAX_SUBQUERIES)
          /\ rc_trace' = IF llm_called THEN <<Event("llm_decompose", "")>> ELSE <<>>
          /\ rc_pc' = IF Len(Take(sqs, MAX_SUBQUERIES)) = 1 THEN "single" ELSE "multi"
    /\ rc_i' = 1
    /\ UNCHANGED <<rc_reranker, rc_all_results, retrieval_results, rc_documents, response>>
    /\ UNCHANGED rc_others

\* retrieve Step 2: the one search returns and its list is returned
RC_SingleSearchOk ==
    /\ rc_pc = "single"
    /\ \E results \in ChainLists :
          /\ rc_trace' = rc_trace \o SearchEvents(results)
          /\ retrieval_results' = Tagged(results, rc_sub_queries[1])
    /\ rc_pc' = "retrieved"
    /\ UNCHANGED <<rc_reranker, rc_sub_queries, rc_i, rc_all_results, rc_documents, response>>
    /\ UNCHANGED rc_others

\* retrieve Step 2: the one search raises, and so do retrieve and invoke
RC_SingleSearchFail ==
    /\ rc_pc = "single"
    /\ rc_trace' = Append(rc_trace, Event("search_raised", ""))
    /\ rc_pc' = "raised"
    /\ UNCHANGED <<rc_reranker, rc_sub_queries, rc_i, rc_all_results, retrieval_results,
                   rc_documents, response>>
    /\ UNCHANGED rc_others

\* retrieve Step 3, one iteration whose search returns
RC_SearchOk ==
    /\ rc_pc = "multi"
    /\ rc_i <= Len(rc_sub_queries)
    /\ \E results \in ChainLists :
          /\ Len(rc_all_results) + Len(results) <= MaxChainRetrieved
          /\ rc_trace' = rc_trace \o SearchEvents(results)
          /\ rc_all_results' = rc_all_results \o Tagged(results, rc_sub_queries[rc_i])
    /\ rc_i' = rc_i + 1
    /\ UNCHANGED <<rc_pc, rc_reranker, rc_sub_queries, retrieval_results, rc_documents, response>>
    /\ UNCHANGED rc_others

\* retrieve Step 3, one iteration whose search raises: except ...: continue
RC_SearchFail ==
    /\ rc_pc = "multi"
    /\ rc_i <= Len(rc_sub_queries)
    /\ rc_trace' = Append(rc_trace, Event("search_raised", ""))
    /\ rc_i' = rc_i + 1
    /\ UNCHANGED <<rc_pc, rc_reranker, rc_sub_queries, rc_all_results, retrieval_results,
                   rc_documents, response>>
    /\ UNCHANGED rc_others

\* retrieve Steps 4 to 6, or its empty return
RC_Fuse ==
    /\ rc_pc = "multi"
    /\ rc_i > Len(rc_sub_queries)
    /\ retrieval_results' =
          IF rc_all_results = <<>> THEN <<>>
          ELSE Take(SortByRelevanceAndDiversity(MergeAndDeduplicate(rc_all_results)),
                    TOP_K_DEFAULT)
    /\ rc_trace' = Append(rc_trace, Event("fusion", ""))
    /\ rc_pc' = "retrieved"
    /\ UNCHANGED <<rc_reranker, rc_sub_queries, rc_i, rc_all_results, rc_documents, response>>
    /\ UNCHANGED rc_others

\* invoke: the conversion to Documents and, if self.reranker, the rerank
RC_Rerank ==
    /\ rc_pc = "retrieved"
    /\ IF rc_reranker
       THEN /\ \E query \in Queries :
                  rc_documents' =
                      Stage1Dicts(Rerank(RetrievalResultsToDocuments(retrieval_results),
                                         NormalizedDefaults, query, TOP_K_DEFAULT))
            /\ rc_trace' = Append(rc_trace, Event("rerank", ""))
       ELSE /\ rc_documents' = RetrievalResultsToDocuments(retrieval_results)
            /\ UNCHANGED rc_trace
    /\ rc_pc' = "ranked"
    /\ UNCHANGED <<rc_reranker, rc_sub_queries, rc_i, rc_all_results, retrieval_results, response>>
    /\ UNCHANGED rc_others

\* invoke with no documents generating all the same
RC_NoEvidenceGenerates ==
    /\ rc_pc = "ranked"
    /\ rc_documents = <<>>
    /\ rc_trace' = Append(rc_trace, Event("llm_generate", ""))
    /\ response' = [answer |-> "generated", sources |-> <<>>, num_sources |-> 0]
    /\ rc_pc' = "done"
    /\ UNCHANGED <<rc_reranker, rc_sub_queries, rc_i, rc_all_results, retrieval_results,
                   rc_documents>>
    /\ UNCHANGED rc_others

\* invoke: if not documents
RC_NoEvidence ==
    /\ rc_pc = "ranked"
    /\ rc_documents = <<>>
    /\ response' = [answer |-> "No relevant evidence found in the database.",
                    sources |-> <<>>, num_sources |-> 0]
    /\ rc_pc' = "done"
    /\ UNCHANGED <<rc_reranker, rc_sub_queries, rc_i, rc_all_results, rc_trace,
                   retrieval_results, rc_documents>>
    /\ UNCHANGED rc_others

\* invoke: the prompt, self.llm.generate returning, _format_response
RC_Generate ==
    /\ rc_pc = "ranked"
    /\ rc_documents # <<>>
    /\ rc_trace' = Append(rc_trace, Event("llm_generate", ""))
    /\ response' = [answer |-> "generated", sources |-> ChunkIdsOf(rc_documents),
                    num_sources |-> Len(rc_documents)]
    /\ rc_pc' = "done"
    /\ UNCHANGED <<rc_reranker, rc_sub_queries, rc_i, rc_all_results, retrieval_results,
                   rc_documents>>
    /\ UNCHANGED rc_others

\* invoke: self.llm.generate raises RuntimeError
RC_GenerateRaises ==
    /\ rc_pc = "ranked"
    /\ rc_documents # <<>>
    /\ rc_trace' = Append(rc_trace, Event("llm_generate", ""))
    /\ rc_pc' = "generate_raised"
    /\ UNCHANGED <<rc_reranker, rc_sub_queries, rc_i, rc_all_results, retrieval_results,
                   rc_documents, response>>
    /\ UNCHANGED rc_others

RC_Next ==
    \/ RC_Retrieve
    \/ RC_SingleSearchOk
    \/ RC_SingleSearchFail
    \/ RC_SearchOk
    \/ RC_SearchFail
    \/ RC_Fuse
    \/ RC_Rerank
    \/ RC_NoEvidence
    \/ RC_Generate
    \/ RC_GenerateRaises

----------------------------------------------------------------------------
(* MedicalQueryRetriever, src/retrieving/langchain_retriever.py *)

\* what _get_relevant_documents looks for in a query: a statistical keyword,
\* the first of the section keyword groups that matches ("" for none), a
\* clinical keyword
QueryKeywords ==
    [statistical : BOOLEAN, section : {"", "methods", "results", "authors_conclusions"},
     clinical : BOOLEAN]

\* the fields of a MedicalQueryRetriever constructed with no filter; None is ""
DefaultFilters == [statistical_only |-> FALSE, section_filter |-> "", quality_filter |-> ""]

\* the assignments of _get_relevant_documents to self for one query
AdjustFilters(filters, query) ==
    [statistical_only |-> IF query.statistical THEN TRUE ELSE filters.statistical_only,
     section_filter |-> IF query.section # "" THEN query.section ELSE filters.section_filter,
     quality_filter |-> IF query.clinical THEN "A" ELSE filters.quality_filter]

LR_Fresh ==
    /\ lr_filters = DefaultFilters
    /\ lr_query = [statistical |-> FALSE, section |-> "", clinical |-> FALSE]
    /\ lr_applied = DefaultFilters
    /\ lr_count = 0

LR_None == lr_pc = "none" /\ LR_Fresh

LR_Init == lr_pc = "ready" /\ LR_Fresh

\* _get_relevant_documents(query): self is adjusted, then the parent method
\* searches with the fields of self
LR_GetRelevantDocuments ==
    /\ lr_pc = "ready"
    /\ lr_count < MaxQueries
    /\ \E query \in QueryKeywords :
          /\ lr_query' = query
          /\ lr_filters' = AdjustFilters(lr_filters, query)
          /\ lr_applied' = AdjustFilters(lr_filters, query)
    /\ lr_count' = lr_count + 1
    /\ UNCHANGED lr_pc
    /\ UNCHANGED lr_others

LR_Next == LR_GetRelevantDocuments

----------------------------------------------------------------------------
(* MedicalQueryDecomposer, src/retrieving/query_decomposer.py *)

\* A query is the set of the phrases of Vocabulary that occur in it, in
\* lower case; `kw in query_lower` is true when kw is a substring of one.
Vocabulary ==
    {"effective", "safe", "compare", " vs ", "vs.", " and ", "both", "along with",
     "method", "evidence", "conclusion", "what is", "for"}

DecomposerQueries == {q \in SUBSET Vocabulary : Cardinality(q) <= MaxPhrases}

\* kw is a substring of phrase
Substring(kw, phrase) ==
    \/ kw = phrase
    \/ <<kw, phrase>> \in {<<"vs ", " vs ">>, <<"vs", " vs ">>, <<"vs", "vs.">>,
                           <<"or", "for">>}

\* any(keyword in query_lower for keyword in keywords)
ContainsAny(query, keywords) ==
    \E phrase \in query, kw \in keywords : Substring(kw, phrase)

\* the keyword lists of _detect_multiple_intents, in its order
INTENT_FAMILIES ==
    <<[intent |-> "effectiveness",
       keywords |-> {"effective", "efficacy", "benefit", "improve", "work", "help"}],
      [intent |-> "safety",
       keywords |-> {"safe", "safety", "adverse", "side effect", "harm", "risk", "toxic"}],
      [intent |-> "comparison",
       keywords |-> {"compare", "versus", "vs ", "better than", "superior to"}],
      [intent |-> "methodology",
       keywords |-> {"method", "methodology", "design", "study design", "how study"}],
      [intent |-> "statistical",
       keywords |-> {"statistical", "statistically", "p-value", "confidence interval",
                     "evidence", "odds ratio", "risk ratio"}]>>

\* the families _detect_multiple_intents appends, in order; the code's
\* ["general"] for none is the empty sequence here
DetectedFamilies(query) ==
    LET Matches(family) == ContainsAny(query, family.keywords)
        matched == SelectSeq(INTENT_FAMILIES, Matches)
    IN  [j \in 1..Len(matched) |-> matched[j].intent]

\* should_decompose without its " and " rule and without "along with"
ShouldDecomposeFamiliesOnly(query) ==
    \/ Len(DetectedFamilies(query)) >= 2
    \/ ContainsAny(query, {"compare", "versus", " vs "})
    \/ ContainsAny(query, {"both", "as well as"})

\* should_decompose
ShouldDecompose(query) ==
    \/ Len(DetectedFamilies(query)) >= 2
    \/ ContainsAny(query, {" and "}) /\ ContainsAny(query, {"effective", "safe", "compare"})
    \/ ContainsAny(query, {"compare", "versus", " vs "})
    \/ ContainsAny(query, {"both", "as well as", "along with"})

\* MedicalReranker._detect_query_intent
DetectQueryIntent(query) ==
    IF ContainsAny(query, {"effective", "efficacy", "treatment", "therapy",
                           "intervention", "benefit"}) THEN "effectiveness"
    ELSE IF ContainsAny(query, {"safety", "safe", "adverse", "side effect", "harm",
                                "risk", "toxicity"}) THEN "safety"
    ELSE IF ContainsAny(query, {"method", "how", "design", "study design",
                                "search strategy", "criteria"}) THEN "methodology"
    ELSE IF ContainsAny(query, {"statistical", "p-value", "confidence", "significance",
                                "evidence"}) THEN "statistical"
    ELSE IF ContainsAny(query, {"conclusion", "recommend", "implication", "should",
                                "guideline"}) THEN "conclusion"
    ELSE IF ContainsAny(query, {"what is", "overview", "background", "about", "define"})
         THEN "background"
    ELSE "general"

\* MedicalReranker._is_statistical_query
IsStatisticalQuery(query) ==
    ContainsAny(query, {"statistical", "statistically", "p-value", "p value",
                        "confidence interval", "ci", "significance", "significant",
                        "odds ratio", "or", "risk ratio", "rr", "hazard ratio", "hr",
                        "effect size", "mean difference", "standardized mean difference",
                        "meta-analysis", "pooled", "heterogeneity"})

\* _get_section_hint; None is ""
GetSectionHint(intent) ==
    CASE intent \in {"effectiveness", "safety", "comparison", "statistical"} -> "results"
      [] intent = "methodology" -> "methods"
      [] intent = "conclusion" -> "authors_conclusions"
      [] intent = "background" -> "background"
      [] OTHER -> ""

\* SubQuery(text, intent, priority, statistical_only, section_hint); a text is
\* "query" for the query itself, "focus" for what _focus_query makes of it,
\* "llm" for a text of the LLM
SubQuery(text, intent, statistical_only, section_hint) ==
    [text |-> text, intent |-> intent, priority |-> 1,
     statistical_only |-> statistical_only, section_hint |-> section_hint]

\* decompose, the query that needs no decomposition
SingleSubQuery(query) ==
    <<SubQuery("query", DetectQueryIntent(query), IsStatisticalQuery(query),
               GetSectionHint(DetectQueryIntent(query)))>>

\* _keyword_based_decompose without its last resort, the whole query
KeywordBasedDecomposeFamiliesOnly(query) ==
    LET intents == DetectedFamilies(query)
    IN  [j \in 1..Len(intents) |->
            SubQuery(IF intents[j] = "comparison" THEN "query" ELSE "focus",
                     intents[j], intents[j] = "statistical",
                     IF intents[j] = "methodology" THEN "methods" ELSE "results")]

\* _keyword_based_decompose
KeywordBasedDecompose(query) ==
    LET intents == DetectedFamilies(query)
    IN  IF intents = <<>>
        THEN <<SubQuery("query", DetectQueryIntent(query), FALSE,
                        GetSectionHint(DetectQueryIntent(query)))>>
        ELSE [j \in 1..Len(intents) |->
                SubQuery(IF intents[j] = "comparison" THEN "query" ELSE "focus",
                         intents[j], intents[j] = "statistical",
                         IF intents[j] = "methodology" THEN "methods" ELSE "results")]

\* the items of a well-formed answer of the LLM: the intent each item gives
\* ("" when it gives none) and whether its text is a statistical query
LLMItems == [intent : {"effectiveness", "diagnosis", ""}, statistical : BOOLEAN]

\* the ways the LLM call gives no sub-query: it raises, its content is not
\* JSON, holds no list, holds an empty list, holds items without "text"
LLMFailures == {"raised", "invalid_json", "no_list", "empty_list", "no_text"}

\* _llm_decompose, the conversion of the items to SubQuery objects
LLMSubQueries(items) ==
    [j \in 1..Len(items) |->
        LET intent == IF items[j].intent = "" THEN "general" ELSE items[j].intent
        IN  SubQuery("llm", intent, items[j].statistical, GetSectionHint(intent))]

DC_Fresh == dc_llm = "" /\ dc_sub_queries = <<>>

DC_None == dc_pc = "none" /\ dc_enable_llm = FALSE /\ dc_query = {} /\ DC_Fresh

\* MedicalQueryDecomposer(enable_llm=...), and the query decompose is given
DC_Init ==
    /\ dc_pc = "idle"
    /\ dc_enable_llm \in BOOLEAN
    /\ dc_query \in DecomposerQueries
    /\ DC_Fresh

\* decompose: not should_decompose(query)
DC_Simple ==
    /\ dc_pc = "idle"
    /\ ~ShouldDecompose(dc_query)
    /\ dc_sub_queries' = SingleSubQuery(dc_query)
    /\ dc_pc' = "done"
    /\ UNCHANGED <<dc_enable_llm, dc_query, dc_llm>>
    /\ UNCHANGED dc_others

\* decompose: _llm_decompose returns sub-queries
DC_LLMReturns ==
    /\ dc_pc = "idle"
    /\ ShouldDecompose(dc_query)
    /\ dc_enable_llm
    /\ \E items \in SeqsUpTo(LLMItems, MaxLLMItems) :
          /\ items # <<>>
          /\ dc_sub_queries' = LLMSubQueries(items)
    /\ dc_llm' = "ok"
    /\ dc_pc' = "done"
    /\ UNCHANGED <<dc_enable_llm, dc_query>>
    /\ UNCHANGED dc_others

\* decompose with nothing catching what the LLM call raises
DC_LLMFailsRaises ==
    /\ dc_pc = "idle"
    /\ ShouldDecompose(dc_query)
    /\ dc_enable_llm
    /\ dc_llm' \in LLMFailures
    /\ dc_pc' = "raised"
    /\ UNCHANGED <<dc_enable_llm, dc_query, dc_sub_queries>>
    /\ UNCHANGED dc_others

\* decompose: _llm_decompose returns None, the keyword fallback follows
DC_LLMFails ==
    /\ dc_pc = "idle"
    /\ ShouldDecompose(dc_query)
    /\ dc_enable_llm
    /\ dc_llm' \in LLMFailures
    /\ dc_sub_queries' = KeywordBasedDecompose(dc_query)
    /\ dc_pc' = "done"
    /\ UNCHANGED <<dc_enable_llm, dc_query>>
    /\ UNCHANGED dc_others

\* decompose with the LLM disabled: the keyword decomposition
DC_KeywordOnly ==
    /\ dc_pc = "idle"
    /\ ShouldDecompose(dc_query)
    /\ ~dc_enable_llm
    /\ dc_sub_queries' = KeywordBasedDecompose(dc_query)
    /\ dc_pc' = "done"
    /\ UNCHANGED <<dc_enable_llm, dc_query, dc_llm>>
    /\ UNCHANGED dc_others

DC_Next ==
    \/ DC_Simple
    \/ DC_LLMReturns
    \/ DC_LLMFails
    \/ DC_KeywordOnly

----------------------------------------------------------------------------
(* MedicalQueryRewriter step by step, src/retrieving/query_rewriter.py *)

\* QueryVariant(text, strategy, weight); texts are "query" for the original
\* query, "expanded" for the query with synonyms, "line" for a reformulation
\* and "answer" for a hypothetical answer
QueryVariant(text, strategy, weight) ==
    [text |-> text, strategy |-> strategy, weight |-> weight]

\* what the stripped content of a HyDE answer can be: a text of its own, the
\* query again, nothing
HydeAnswers == {"answer", "query", ""}

\* one generation-service call: which one, and "ok" or "raised"
ServiceCall(step, outcome) == [step |-> step, outcome |-> outcome]

RW_Fresh ==
    /\ rw_enabled = [synonyms |-> FALSE, llm |-> FALSE, hyde |-> FALSE]
    /\ rw_num_variants = 0
    /\ rw_calls = <<>>
    /\ rw_variants = <<>>

RW_None == rw_pc = "none" /\ RW_Fresh

\* MedicalQueryRewriter(enable_synonyms, enable_llm, enable_hyde), and the
\* num_variants rewrite_query is given
RW_Init ==
    /\ rw_pc = "idle"
    /\ rw_enabled \in [synonyms : BOOLEAN, llm : BOOLEAN, hyde : BOOLEAN]
    /\ rw_num_variants \in 0..MaxNumVariants
    /\ rw_calls = <<>>
    /\ rw_variants = <<>>

\* rewrite_query: the original query, then Strategy 1
RW_Synonyms ==
    /\ rw_pc = "idle"
    /\ \E changed \in BOOLEAN :
          rw_variants' =
              <<QueryVariant("query", "original", 10)>>
              \o (IF rw_enabled.synonyms /\ changed
                  THEN <<QueryVariant("expanded", "synonyms", 8)>> ELSE <<>>)
    /\ rw_pc' = "llm"
    /\ UNCHANGED <<rw_enabled, rw_num_variants, rw_calls>>
    /\ UNCHANGED rw_others

\* Strategy 2, _llm_reformulate whose call returns `lines` non-empty lines
RW_ReformulateOk ==
    /\ rw_pc = "llm"
    /\ rw_enabled.llm
    /\ \E lines \in 0..MaxLines :
          rw_variants' =
              rw_variants
              \o Take([j \in 1..lines |-> QueryVariant("line", "llm_reformulation", 9)],
                      rw_num_variants)
    /\ rw_calls' = Append(rw_calls, ServiceCall("reformulate", "ok"))
    /\ rw_pc' = "hyde"
    /\ UNCHANGED <<rw_enabled, rw_num_variants>>
    /\ UNCHANGED rw_others

\* Strategy 2, _llm_reformulate whose call raises: it returns []
RW_ReformulateFails ==
    /\ rw_pc = "llm"
    /\ rw_enabled.llm
    /\ rw_calls' = Append(rw_calls, ServiceCall("reformulate", "raised"))
    /\ rw_pc' = "hyde"
    /\ UNCHANGED <<rw_enabled, rw_num_variants, rw_variants>>
    /\ UNCHANGED rw_others

\* Strategy 2 when enable_llm is off
RW_ReformulateOff ==
    /\ rw_pc = "llm"
    /\ ~rw_enabled.llm
    /\ rw_pc' = "hyde"
    /\ UNCHANGED <<rw_enabled, rw_num_variants, rw_calls, rw_variants>>
    /\ UNCHANGED rw_others

\* Strategy 3, _generate_hypothetical_answer whose call returns
RW_HydeOk ==
    /\ rw_pc = "hyde"
    /\ rw_enabled.hyde
    /\ \E hyde_variant \in HydeAnswers :
          rw_variants' =
              IF hyde_variant # "" /\ hyde_variant # "query"
              THEN Append(rw_variants, QueryVariant(hyde_variant, "hyde", 9))
              ELSE rw_variants
    /\ rw_calls' = Append(rw_calls, ServiceCall("hyde", "ok"))
    /\ rw_pc' = "done"
    /\ UNCHANGED <<rw_enabled, rw_num_variants>>
    /\ UNCHANGED rw_others

\* Strategy 3 with the failed call's answer added as a variant all the same
RW_HydeFailsAddsQuery ==
    /\ rw_pc = "hyde"
    /\ rw_enabled.hyde
    /\ rw_variants' = Append(rw_variants, QueryVariant("query", "hyde", 9))
    /\ rw_calls' = Append(rw_calls, ServiceCall("hyde", "raised"))
    /\ rw_pc' = "done"
    /\ UNCHANGED <<rw_enabled, rw_num_variants>>
    /\ UNCHANGED rw_others

\* Strategy 3, _generate_hypothetical_answer whose call raises: it returns
\* the query, which rewrite_query does not add
RW_HydeFails ==
    /\ rw_pc = "hyde"
    /\ rw_enabled.hyde
    /\ rw_variants' = rw_variants
    /\ rw_calls' = Append(rw_calls, ServiceCall("hyde", "raised"))
    /\ rw_pc' = "done"
    /\ UNCHANGED <<rw_enabled, rw_num_variants>>
    /\ UNCHANGED rw_others

\* Strategy 3 when enable_hyde is off
RW_HydeOff ==
    /\ rw_pc = "hyde"
    /\ ~rw_enabled.hyde
    /\ rw_pc' = "done"
    /\ UNCHANGED <<rw_enabled, rw_num_variants, rw_calls, rw_variants>>
    /\ UNCHANGED rw_others

RW_Next ==
    \/ RW_Synonyms
    \/ RW_ReformulateOk
    \/ RW_ReformulateFails
    \/ RW_ReformulateOff
    \/ RW_HydeOk
    \/ RW_HydeFails
    \/ RW_HydeOff

----------------------------------------------------------------------------
(* CochraneRetriever: hierarchical enrichment, src/retrieving/retriever.py *)

\* A RetrievalResult before enrichment. enriched_content is the list of the
\* parts that "\n\n".join puts together, <<>> for the default ""; `fetch` is
\* what the fetch of the parent did, "" when none was made.
Candidate(level, parent_chunk_id, section_name, subsection_name, quality_grade) ==
    [level |-> level, content |-> "content", parent_chunk_id |-> parent_chunk_id,
     section_name |-> section_name, subsection_name |-> subsection_name,
     quality_grade |-> quality_grade, enriched_content |-> <<>>, fetch |-> ""]

EnrichCandidates ==
    {Candidate("DOCUMENT", "", "", "", "A"),
     Candidate("SECTION", "", "results", "", "C"),
     Candidate("SUBSECTION", "", "results", "", "A"),
     Candidate("SUBSECTION", "", "", "subgroup", "C"),
     Candidate("PARAGRAPH", "parent", "results", "", "A"),
     Candidate("PARAGRAPH", "", "results", "", "C"),
     Candidate("", "", "", "", "A")}

\* the properties of a parent chunk that the enrichment reads
ParentChunks == [section_name : {"", "methods"}, has_statistical_data : BOOLEAN]

\* "\n\n".join(enriched_parts) of a found parent
ParentParts(result, parent_chunk) ==
    (IF parent_chunk.section_name # "" THEN <<"## " \o parent_chunk.section_name>> ELSE <<>>)
    \o <<result.content>>
    \o (IF parent_chunk.has_statistical_data
        THEN <<"[Contains statistical analysis]">> ELSE <<>>)

\* "\n\n".join(enriched_parts) of a SUBSECTION
SubsectionParts(result) ==
    (IF result.section_name # "" THEN <<"## " \o result.section_name>> ELSE <<>>)
    \o (IF result.subsection_name # "" THEN <<"### " \o result.subsection_name>> ELSE <<>>)
    \o <<result.content>>

\* _post_filter_by_metadata, the quality_grade filter
PostFilterByMetadata(results, quality_grade) ==
    IF quality_grade = "" THEN results
    ELSE SelectSeq(results, LAMBDA r : r.quality_grade = quality_grade)

\* the PARAGRAPH branch is taken for the result
NeedsParent(result) == result.level = "PARAGRAPH" /\ result.parent_chunk_id # ""

EN_Fresh ==
    /\ en_quality_grade = ""
    /\ en_limit = 0
    /\ en_results = <<>>
    /\ en_i = 0
    /\ en_returned = <<>>

EN_None == en_pc = "none" /\ EN_Fresh

\* search(query, limit, quality_grade) once the results are built
EN_Init ==
    /\ en_pc = "enrich"
    /\ en_quality_grade \in {"", "A"}
    /\ en_limit \in 1..MaxEnriched
    /\ en_results \in SeqsUpTo(EnrichCandidates, MaxEnriched)
    /\ en_i = 1
    /\ en_returned = <<>>

\* the loop body of _enrich_with_hierarchical_context leaves `enriched` and
\* `fetch` in the result at en_i
EN_Enriched(enriched, fetch) ==
    /\ en_results' = [en_results EXCEPT ![en_i].enriched_content = enriched,
                                        ![en_i].fetch = fetch]
    /\ en_i' = en_i + 1
    /\ UNCHANGED <<en_pc, en_quality_grade, en_limit, en_returned>>
    /\ UNCHANGED en_others

\* PARAGRAPH, _get_chunk_by_id returns the parent's properties
EN_ParentFound ==
    /\ en_pc = "enrich"
    /\ en_i <= Len(en_results)
    /\ NeedsParent(en_results[en_i])
    /\ \E parent_chunk \in ParentChunks :
          EN_Enriched(ParentParts(en_results[en_i], parent_chunk), "found")

\* PARAGRAPH, the fetch raises inside _get_chunk_by_id and the search stops
EN_ParentMissingRaises ==
    /\ en_pc = "enrich"
    /\ en_i <= Len(en_results)
    /\ NeedsParent(en_results[en_i])
    /\ en_pc' = "raised"
    /\ UNCHANGED <<en_quality_grade, en_limit, en_results, en_i, en_returned>>
    /\ UNCHANGED en_others

\* PARAGRAPH, _get_chunk_by_id returns None: the fetch raised or found no
\* object
EN_ParentMissing ==
    /\ en_pc = "enrich"
    /\ en_i <= Len(en_results)
    /\ NeedsParent(en_results[en_i])
    /\ \E fetch \in {"raised", "no_objects"} :
          EN_Enriched(<<en_results[en_i].content>>, fetch)

\* SUBSECTION: the content under its headers
EN_Subsection ==
    /\ en_pc = "enrich"
    /\ en_i <= Len(en_results)
    /\ ~NeedsParent(en_results[en_i])
    /\ en_results[en_i].level = "SUBSECTION"
    /\ EN_Enriched(SubsectionParts(en_results[en_i]), "")

\* every other result: the content as it is
EN_Other ==
    /\ en_pc = "enrich"
    /\ en_i <= Len(en_results)
    /\ ~NeedsParent(en_results[en_i])
    /\ en_results[en_i].level # "SUBSECTION"
    /\ EN_Enriched(<<en_results[en_i].content>>, "")

\* search after the enrichment: post-filter, cut to limit, return
EN_Return ==
    /\ en_pc = "enrich"
    /\ en_i > Len(en_results)
    /\ en_returned' = Take(PostFilterByMetadata(en_results, en_quality_grade), en_limit)
    /\ en_pc' = "done"
    /\ UNCHANGED <<en_quality_grade, en_limit, en_results, en_i>>
    /\ UNCHANGED en_others

EN_Next ==
    \/ EN_ParentFound
    \/ EN_ParentMissing
    \/ EN_Subsection
    \/ EN_Other
    \/ EN_Return

----------------------------------------------------------------------------
(* IndexingPipeline, src/indexing/indexing_pipeline.py *)

DocumentIds == {"doi1", "doi2"}

\* self.stats, the counters the loops change
NoStats == [successful |-> 0, failed |-> 0, skipped |-> 0, total_processed |-> 0]

\* one iteration of a loop: the document, what the two inserts reported
\* (FALSE when they were not reached), whether mark_as_processed was called,
\* and the counter that went up
Processed(document_id, metadata_success, chunks_success, marked, counted) ==
    [document_id |-> document_id, metadata_success |-> metadata_success,
     chunks_success |-> chunks_success, marked |-> marked, counted |-> counted]

\* self.stats[counter] += n
Count(stats, counter, n) == [stats EXCEPT ![counter] = @ + n]

IX_Fresh ==
    /\ ix_method = ""
    /\ ix_skip_processed = FALSE
    /\ ix_files = <<>>
    /\ ix_history = {}
    /\ ix_log = <<>>
    /\ ix_stats = NoStats

IX_None == ix_pc = "none" /\ IX_Fresh

\* IndexingPipeline(), the files of the directory and the history so far
IX_Init ==
    /\ ix_pc = "start"
    /\ ix_method \in {"index_processed_documents", "batch_index"}
    /\ ix_skip_processed \in BOOLEAN
    /\ ix_files \in SeqsUpTo(DocumentIds, MaxFiles)
    /\ ix_history \in SUBSET DocumentIds
    /\ ix_log = <<>>
    /\ ix_stats = NoStats

\* index_processed_documents up to its loop
IX_StartIndex ==
    /\ ix_pc = "start"
    /\ ix_method = "index_processed_documents"
    /\ ix_pc' = "loop"
    /\ UNCHANGED <<ix_method, ix_skip_processed, ix_files, ix_history, ix_log, ix_stats>>
    /\ UNCHANGED ix_others

\* batch_index up to its loop: the files whose document is in the history
\* are left out and counted as skipped
IX_StartBatch ==
    /\ ix_pc = "start"
    /\ ix_method = "batch_index"
    /\ LET files_to_process == SelectSeq(ix_files, LAMBDA d : d \notin ix_history)
       IN  /\ ix_files' = files_to_process
           /\ ix_stats' = Count(ix_stats, "skipped", Len(ix_files) - Len(files_to_process))
    /\ ix_pc' = "loop"
    /\ UNCHANGED <<ix_method, ix_skip_processed, ix_history, ix_log>>
    /\ UNCHANGED ix_others

\* the loop is at a file: its document_id
IX_AtFile == ix_pc = "loop" /\ ix_files # <<>>

\* the iteration ends: `entry` is logged, `counters` go up by one
IX_Iterated(entry, counters) ==
    /\ ix_log' = Append(ix_log, entry)
    /\ ix_stats' = [c \in DOMAIN ix_stats |->
                      IF c \in counters THEN ix_stats[c] + 1 ELSE ix_stats[c]]
    /\ ix_files' = Tail(ix_files)
    /\ UNCHANGED <<ix_pc, ix_method, ix_skip_processed>>
    /\ UNCHANGED ix_others

\* index_processed_documents: check_if_processed is true, continue
IX_Skip ==
    /\ IX_AtFile
    /\ ix_method = "index_processed_documents"
    /\ ix_skip_processed
    /\ Head(ix_files) \in ix_history
    /\ IX_Iterated(Processed(Head(ix_files), FALSE, FALSE, FALSE, "skipped"), {"skipped"})
    /\ UNCHANGED ix_history

\* the file is to be indexed, not skipped
IX_ToIndex ==
    /\ IX_AtFile
    /\ ix_method = "index_processed_documents" =>
          ~(ix_skip_processed /\ Head(ix_files) \in ix_history)

\* loading or chunking raises: except Exception
IX_Raises ==
    /\ IX_ToIndex
    /\ IX_Iterated(Processed(Head(ix_files), FALSE, FALSE, FALSE, "failed"), {"failed"})
    /\ UNCHANGED ix_history

\* both inserts report success: mark_as_processed, which may fail in silence
IX_Indexed ==
    /\ IX_ToIndex
    /\ \E recorded \in BOOLEAN :
          ix_history' = IF recorded THEN ix_history \cup {Head(ix_files)} ELSE ix_history
    /\ IX_Iterated(Processed(Head(ix_files), TRUE, TRUE, TRUE, "successful"),
                   {"successful", "total_processed"})

\* an insert reports failure, and the document is marked if the other did not
IX_InsertFailsMarksOnEither ==
    /\ IX_ToIndex
    /\ \E metadata_success, chunks_success \in BOOLEAN :
          /\ ~(metadata_success /\ chunks_success)
          /\ LET marked == metadata_success \/ chunks_success
             IN  /\ ix_history' = IF marked THEN ix_history \cup {Head(ix_files)}
                                  ELSE ix_history
                 /\ IX_Iterated(Processed(Head(ix_files), metadata_success, chunks_success,
                                          marked, IF marked THEN "successful" ELSE "failed"),
                                {IF marked THEN "successful" ELSE "failed", "total_processed"})

\* an insert reports failure: the else branch
IX_InsertFails ==
    /\ IX_ToIndex
    /\ \E metadata_success, chunks_success \in BOOLEAN :
          /\ ~(metadata_success /\ chunks_success)
          /\ IX_Iterated(Processed(Head(ix_files), metadata_success, chunks_success,
                                   FALSE, "failed"),
                         {"failed", "total_processed"})
    /\ UNCHANGED ix_history

\* the loop is over: _print_summary
IX_Finish ==
    /\ ix_pc = "loop"
    /\ ix_files = <<>>
    /\ ix_pc' = "done"
    /\ UNCHANGED <<ix_method, ix_skip_processed, ix_files, ix_history, ix_log, ix_stats>>
    /\ UNCHANGED ix_others

IX_Next ==
    \/ IX_StartIndex
    \/ IX_StartBatch
    \/ IX_Skip
    \/ IX_Raises
    \/ IX_Indexed
    \/ IX_InsertFails
    \/ IX_Finish

----------------------------------------------------------------------------
(* Specifications *)

\* one request to a QueryFusionRetriever
FusionInit == QF_Init /\ MQ_None /\ MD_None /\ RR_None /\ HY_None /\ RC_None /\ LR_None /\ DC_None /\ RW_None /\ EN_None /\ IX_None

SpecFusion == FusionInit /\ [][QF_Next]_vars

\* one request to a MultiQueryRetriever
MultiInit == QF_None /\ MQ_Init /\ MD_None /\ RR_None /\ HY_None /\ RC_None /\ LR_None /\ DC_None /\ RW_None /\ EN_None /\ IX_None

SpecMulti == MultiInit /\ [][MQ_Next]_vars

\* one request to either retriever
RetrieveInit ==
    \/ FusionInit
    \/ MultiInit

RetrieveNext == QF_Next \/ MQ_Next

Spec == RetrieveInit /\ [][RetrieveNext]_vars

\* one call of _merge_and_deduplicate
MergeInit == QF_None /\ MQ_None /\ MD_Init /\ RR_None /\ HY_None /\ RC_None /\ LR_None /\ DC_None /\ RW_None /\ EN_None /\ IX_None

SpecMerge == MergeInit /\ [][MD_Next]_vars

\* construction of a MedicalReranker and one call of rerank
RerankerInit == QF_None /\ MQ_None /\ MD_None /\ RR_Init /\ HY_None /\ RC_None /\ LR_None /\ DC_None /\ RW_None /\ EN_None /\ IX_None

SpecReranker == RerankerInit /\ [][RR_Next]_vars

\* construction of a MedicalReranker with the default weights and one call
\* of rerank
RerankDefaultInit == QF_None /\ MQ_None /\ MD_None /\ RR_DefaultInit /\ HY_None /\ RC_None /\ LR_None /\ DC_None /\ RW_None /\ EN_None /\ IX_None

SpecRerankDefault == RerankDefaultInit /\ [][RR_DefaultNext]_vars

\* construction of a HybridReranker and one call of rerank
HybridInit == QF_None /\ MQ_None /\ MD_None /\ RR_None /\ HY_Init /\ RC_None /\ LR_None /\ DC_None /\ RW_None /\ EN_None /\ IX_None

SpecHybrid == HybridInit /\ [][HY_Next]_vars

\* construction of a MedicalRAGChain and one call of invoke
ChainInit == QF_None /\ MQ_None /\ MD_None /\ RR_None /\ HY_None /\ RC_Init /\ LR_None /\ DC_None /\ RW_None /\ EN_None /\ IX_None

SpecChain == ChainInit /\ [][RC_Next]_vars

\* a MedicalQueryRetriever and the queries it is given, one after the other
LangchainInit ==
    QF_None /\ MQ_None /\ MD_None /\ RR_None /\ HY_None /\ RC_None /\ LR_Init /\ DC_None /\ RW_None /\ EN_None /\ IX_None

SpecLangchain == LangchainInit /\ [][LR_Next]_vars

\* a MedicalQueryDecomposer and one call of decompose
DecomposerInit ==
    QF_None /\ MQ_None /\ MD_None /\ RR_None /\ HY_None /\ RC_None /\ LR_None /\ DC_Init /\ RW_None /\ EN_None /\ IX_None

SpecDecomposer == DecomposerInit /\ [][DC_Next]_vars

\* one call of decompose, or one request to a MultiQueryRetriever
DecomposeRetrieveInit ==
    \/ DecomposerInit
    \/ MultiInit

DecomposeRetrieveNext == DC_Next \/ MQ_Next

SpecDecomposeRetrieve == DecomposeRetrieveInit /\ [][DecomposeRetrieveNext]_vars

\* a MedicalQueryRewriter and one call of rewrite_query
RewriterInit ==
    QF_None /\ MQ_None /\ MD_None /\ RR_None /\ HY_None /\ RC_None /\ LR_None /\ DC_None /\ RW_Init /\ EN_None /\ IX_None

SpecRewriter == RewriterInit /\ [][RW_Next]_vars

\* one call of CochraneRetriever.search, from the enrichment on
EnrichInit ==
    QF_None /\ MQ_None /\ MD_None /\ RR_None /\ HY_None /\ RC_None /\ LR_None /\ DC_None /\ RW_None /\ EN_Init /\ IX_None

SpecEnrich == EnrichInit /\ [][EN_Next]_vars

\* an IndexingPipeline and one run of index_processed_documents or batch_index
IndexingInit ==
    QF_None /\ MQ_None /\ MD_None /\ RR_None /\ HY_None /\ RC_None /\ LR_None /\ DC_None /\ RW_None /\ EN_None /\ IX_Init

SpecIndexing == IndexingInit /\ [][IX_Next]_vars

----------------------------------------------------------------------------
(* Claims: QueryFusionRetriever.retrieve *)

NoDuplicates(s) == \A i, j \in 1..Len(s) : i # j => s[i] # s[j]

AllFailed(searched) == \A i \in 1..Len(searched) : ~searched[i].ok

\* the fusion score the specification gives chunk c, from the lists the
\* searches of this request returned
ExpectedScore(c) ==
    SumSeq([i \in 1..Len(qf_searched) |->
        SumSeq([r \in 1..Len(qf_searched[i].results) |->
            IF qf_searched[i].results[r].chunk_id = c
            THEN variants[i].weight * (ScoreDen \div (RRF_K + (r - 1)))
            ELSE 0])])

\* every result the searches of this request returned, in the order seen
RECURSIVE Flattened(_)
Flattened(searched) ==
    IF searched = <<>> THEN <<>>
    ELSE Head(searched).results \o Flattened(Tail(searched))

ReturnedIds == {Flattened(qf_searched)[p].chunk_id : p \in 1..Len(Flattened(qf_searched))}

FirstSeen(c) ==
    CHOOSE p \in 1..Len(Flattened(qf_searched)) :
        /\ Flattened(qf_searched)[p].chunk_id = c
        /\ \A q \in 1..(p - 1) : Flattened(qf_searched)[q].chunk_id # c

FusedIds == ChunkIdsOf(fused_results)

ScenarioC1 ==
    /\ qf_pc = "done"
    /\ qf_top_k >= 4
    /\ Len(variants) = 2
    /\ variants[1].weight = 10
    /\ variants[2].weight = 8
    /\ qf_searched[1].ok
    /\ qf_searched[2].ok
    /\ ChunkIdsOf(qf_searched[1].results) = <<"x", "y", "z">>
    /\ ChunkIdsOf(qf_searched[2].results) = <<"y", "x", "w">>

\* C1: the fusion score of every returned chunk_id is the sum of
\* weight / (rrf_k + rank) over its appearances, 0-based ranks; the output is
\* in descending order of that score and holds the best ones; variant
\* A = [x, y, z] at weight 1.0 and B = [y, x, w] at weight 0.8 give x, y, z, w
C1_FusionScoreAndOrder ==
    qf_pc = "done" =>
        LET es == [c \in ChunkIds |-> ExpectedScore(c)]
            ids == FusedIds
            returned == ReturnedIds
        IN  /\ \A c \in returned :
                  DictHas(fusion_scores, c) /\ DictGet(fusion_scores, c) = es[c]
            /\ \A j \in 1..Len(ids) : ids[j] \in returned
            /\ \A i, j \in 1..Len(ids) : i < j => es[ids[i]] >= es[ids[j]]
            /\ \A c \in returned :
                  (\A j \in 1..Len(ids) : ids[j] # c) =>
                      /\ Len(ids) = qf_top_k
                      /\ \A j \in 1..Len(ids) : es[ids[j]] >= es[c]
            /\ ScenarioC1 => ids = <<"x", "y", "z", "w">>

C1_Witness == ScenarioC1 /\ FusedIds = <<"x", "y", "z", "w">>

\* C2: no chunk_id appears twice in the list either retriever returns
C2_NoDuplicateChunkId ==
    /\ qf_pc = "done" => NoDuplicates(ChunkIdsOf(fused_results))
    /\ mq_pc = "done" => NoDuplicates(ChunkIdsOf(final_results))

\* the fusion of the lists of the searches that succeeded, nothing else
RECURSIVE StoreSucceeded(_, _, _, _)
StoreSucceeded(searched, i, all, ranks) ==
    IF i > Len(searched) THEN [all |-> all, ranks |-> ranks]
    ELSE IF searched[i].ok
         THEN LET st == StoreRanks(searched[i].results, 1, variants[i].weight, all, ranks)
              IN  StoreSucceeded(searched, i + 1, st.all, st.ranks)
         ELSE StoreSucceeded(searched, i + 1, all, ranks)

FusionOfSucceeded ==
    LET st == StoreSucceeded(qf_searched, 1, <<>>, <<>>)
    IN  Fuse(FusionScores(st.ranks), st.all, qf_top_k, qf_final_k)

RECURSIVE TaggedSucceeded(_, _)
TaggedSucceeded(searched, i) ==
    IF i > Len(searched) THEN <<>>
    ELSE (IF searched[i].ok THEN Tagged(searched[i].results, sub_queries[i]) ELSE <<>>)
         \o TaggedSucceeded(searched, i + 1)

MergeOfSucceeded ==
    IF TaggedSucceeded(mq_searched, 1) = <<>> THEN <<>>
    ELSE Take(SortByRelevanceAndDiversity(
                  MergeAndDeduplicate(TaggedSucceeded(mq_searched, 1))), mq_top_k)

\* C3: a failing search never makes retrieve raise (MultiQueryRetriever: with
\* two or more sub-queries), every search of the request is still issued,
\* and the list returned is the fusion of the lists of the searches that
\* succeeded
C3_PartialFailure ==
    /\ qf_pc = "done" =>
          /\ Len(qf_searched) = Len(variants)
          /\ fused_results = FusionOfSucceeded
    /\ Len(sub_queries) >= 2 =>
          /\ mq_pc # "raised"
          /\ mq_pc = "done" =>
                /\ Len(mq_searched) = Len(sub_queries)
                /\ final_results = MergeOfSucceeded

C3_Witness ==
    /\ qf_pc = "done"
    /\ Len(variants) = 3
    /\ ~qf_searched[1].ok
    /\ qf_searched[2].ok
    /\ qf_searched[3].ok
    /\ Len(fused_results) = 2

\* C4: when every search of a request fails, retrieve returns an empty list
\* and does not raise, in both retrievers and for any number of variants or
\* sub-queries
C4_AllFailedReturnsEmpty ==
    /\ (qf_pc = "done" /\ AllFailed(qf_searched)) => fused_results = <<>>
    /\ (mq_pc \in {"done", "raised"} /\ AllFailed(mq_searched)) =>
          (mq_pc = "done" /\ final_results = <<>>)

\* C5: chunk_ids of equal fusion score come out in the order first seen
\* (variant order, then rank), among themselves and against the ones cut off
C5_TiesInFirstSeenOrder ==
    qf_pc = "done" =>
        LET es == [c \in ChunkIds |-> ExpectedScore(c)]
            ids == FusedIds
            returned == ReturnedIds
            seen == [c \in returned |-> FirstSeen(c)]
        IN  /\ \A i, j \in 1..Len(ids) :
                  (i < j /\ es[ids[i]] = es[ids[j]]) => seen[ids[i]] < seen[ids[j]]
            /\ \A c \in returned :
                  (\A j \in 1..Len(ids) : ids[j] # c) =>
                      \A j \in 1..Len(ids) :
                          es[ids[j]] = es[c] => seen[ids[j]] < seen[c]

C5_Witness ==
    /\ qf_pc = "done"
    /\ Len(FusedIds) >= 2
    /\ ExpectedScore(FusedIds[1]) = ExpectedScore(FusedIds[2])

\* C6: a QueryFusionRetriever constructed with final_k = F never returns more
\* than F entries, whatever top_k is
C6_AtMostFinalK == qf_pc = "done" => Len(fused_results) <= qf_final_k

----------------------------------------------------------------------------
(* Claims: MultiQueryRetriever *)

\* the occurrence the rule of C7 keeps of two occurrences of one chunk_id
C7_Keeps(r1, r2, kept) ==
    IF /\ Abs(r1.distance - r2.distance) < SIMILAR_DISTANCE
       /\ r1.sub_query_priority # r2.sub_query_priority
    THEN kept = (IF r1.sub_query_priority < r2.sub_query_priority THEN r1 ELSE r2)
    ELSE IF r1.distance # r2.distance
         THEN kept = (IF r1.distance < r2.distance THEN r1 ELSE r2)
         ELSE kept \in {r1, r2}

\* C7: of two occurrences of a chunk_id the one with the lower distance is
\* kept, except that when the distances differ by less than 0.05 and the
\* priorities differ the one of lower priority value is kept, whichever comes
\* first
C7_LowerDistanceOrPriority ==
    (/\ md_pc = "done"
     /\ Len(md_results) = 2
     /\ md_results[1].chunk_id = md_results[2].chunk_id) =>
        /\ Len(md_merged) = 1
        /\ C7_Keeps(md_results[1], md_results[2], md_merged[1])

TwoFullPages ==
    /\ mq_pc = "done"
    /\ mq_top_k >= 4
    /\ Len(sub_queries) = 2
    /\ \A i \in 1..2 : mq_searched[i].ok /\ Len(mq_searched[i].results) = K_PER_SUBQUERY
    /\ NoDuplicates(ChunkIdsOf(mq_searched[1].results \o mq_searched[2].results))

\* C8: two sub-queries, each search returning 5 candidates, all chunk_ids
\* distinct, top_k of 4 or more: the first 4 entries returned hold a
\* candidate of each sub-query
C8_BothSubQueriesInTopFour ==
    TwoFullPages =>
        \A i \in 1..2 :
            \E j \in 1..Min(4, Len(final_results)) :
                \E r \in 1..Len(mq_searched[i].results) :
                    final_results[j].chunk_id = mq_searched[i].results[r].chunk_id

----------------------------------------------------------------------------
(* Claims: MedicalReranker *)

InUnit(x) == 0 <= x /\ x <= 100

\* C9: for any four raw weights construction succeeds, and the four stored
\* weights sum to 1.0
C9_WeightsSumToOne ==
    /\ rr_pc # "raised"
    /\ rr_pc \in {"ready", "done"} =>
          /\ rr_weights.den # 0
          /\ rr_weights.quality + rr_weights.statistical + rr_weights.section
                + rr_weights.semantic = rr_weights.den

\* C10: for every document reranked the four component scores and the
\* rerank_score lie in [0,1], the semantic component is the relevance_score
\* of the metadata (0.5 when absent), and the rerank_score is the weighted sum
\* of the components under the normalized weights
C10_ScoresInUnitInterval ==
    rr_pc = "done" =>
        \A j \in 1..Len(rr_scored) :
            LET d == rr_scored[j]
                b == d.score_breakdown
            IN  /\ InUnit(b.quality)
                /\ InUnit(b.statistical)
                /\ InUnit(b.section)
                /\ InUnit(b.semantic)
                /\ b.semantic = (IF d.metadata.has_relevance
                                 THEN d.metadata.relevance_score ELSE DEFAULT_RELEVANCE)
                /\ d.value = b.quality * rr_weights.quality
                               + b.statistical * rr_weights.statistical
                               + b.section * rr_weights.section
                               + b.semantic * rr_weights.semantic
                /\ 0 <= d.value
                /\ d.value <= 100 * rr_weights.den

----------------------------------------------------------------------------
(* Claims: MedicalReranker, sections, quality, order *)

\* position of section name s in a priority list, 0 when it is not an entry
PositionIn(list, s) ==
    IF \E i \in 1..Len(list) : list[i] = s
    THEN CHOOSE i \in 1..Len(list) : list[i] = s
    ELSE 0

\* C11: under every query intent, a document whose section_name is an earlier
\* entry of the intent's section-priority list gets a strictly higher section
\* component than a document whose section_name is a later entry
C11_EarlierSectionScoresHigher ==
    rr_pc = "done" =>
        LET list == SECTION_PRIORITIES[rr_query.intent]
        IN  \A a, b \in 1..Len(rr_scored) :
                LET pa == PositionIn(list, rr_scored[a].metadata.section_name)
                    pb == PositionIn(list, rr_scored[b].metadata.section_name)
                IN  (pa > 0 /\ pb > 0 /\ pa < pb) =>
                        rr_scored[a].score_breakdown.section
                            > rr_scored[b].score_breakdown.section

\* d1 and d2 are the same document but for quality_grade, A in d1, C in d2
OnlyQualityDiffers(d1, d2) ==
    /\ d1.quality_grade = "A"
    /\ d2.quality_grade = "C"
    /\ [d1 EXCEPT !.quality_grade = "C"] = d2

\* C12: of two documents that differ only in quality_grade, A and C, the A
\* document's quality component is 1.0 and the C document's 0.4, and under the
\* default weights the A document has the strictly higher rerank_score and
\* precedes the C document in the output
C12_GradeAAboveGradeC ==
    rr_pc = "done" =>
        \A a, b \in 1..Len(rr_documents) :
            OnlyQualityDiffers(rr_documents[a], rr_documents[b]) =>
                \A j \in 1..Len(rr_scored) :
                    /\ rr_scored[j].metadata = rr_documents[a] =>
                          rr_scored[j].score_breakdown.quality = 100
                    /\ rr_scored[j].metadata = rr_documents[b] =>
                          /\ rr_scored[j].score_breakdown.quality = 40
                          /\ \E i \in 1..(j - 1) :
                                /\ rr_scored[i].metadata = rr_documents[a]
                                /\ rr_scored[i].value > rr_scored[j].value

C12_Witness ==
    /\ rr_pc = "done"
    /\ Len(rr_documents) = 2
    /\ OnlyQualityDiffers(rr_documents[2], rr_documents[1])
    /\ Len(rr_scored) = 2
    /\ rr_scored[1].metadata = rr_documents[2]
    /\ rr_scored[2].metadata = rr_documents[1]

\* the documents of rerank's input, and of its output, whose score is v
InputsScoring(v) ==
    LET Scores(d) == ScoreDocument(d, rr_weights, rr_query).value = v
    IN  SelectSeq(rr_documents, Scores)

OutputsScoring(v) ==
    LET Scores(d) == d.value = v
        kept == SelectSeq(rr_scored, Scores)
    IN  [j \in 1..Len(kept) |-> kept[j].metadata]

\* C13: rerank returns the documents in non-increasing rerank_score order,
\* documents of equal score in their input order, and for every top_k >= 0
\* exactly min(top_k, number of documents) of them
C13_SortedStableAndCut ==
    rr_pc = "done" =>
        /\ \A i, j \in 1..Len(rr_scored) :
              i < j => rr_scored[i].value >= rr_scored[j].value
        /\ \A j \in 1..Len(rr_scored) :
              LET v == rr_scored[j].value
              IN  /\ Len(OutputsScoring(v)) <= Len(InputsScoring(v))
                  /\ OutputsScoring(v) = Take(InputsScoring(v), Len(OutputsScoring(v)))
        /\ rr_top_k >= 0 => Len(rr_scored) = Min(rr_top_k, Len(rr_documents))

----------------------------------------------------------------------------
(* Claims: HybridReranker *)

\* the cross-encoder service gave no score: no API key, or every scoring
\* request of the call raised, timed out or answered a status other than 200
ServiceUnavailable ==
    \/ ~ce_available
    \/ /\ ce_calls # <<>>
       /\ \A c \in 1..Len(ce_calls) : ce_calls[c] # "ok"

\* C14: HybridReranker.rerank does not fail because of the cross-encoder
\* service, and when the service is unavailable it returns the stage-1 order
\* cut to stage2_top_k
C14_FallbackToStage1Order ==
    (hy_pc = "done" /\ ServiceUnavailable) =>
        final_docs = Take(Stage1Dicts(stage1_docs), STAGE2_TOP_K)

----------------------------------------------------------------------------
(* Claims: MedicalRAGChain *)

\* retrieve returned, and returned no candidate
RetrievedNothing ==
    /\ rc_pc \in {"retrieved", "ranked", "done", "generate_raised"}
    /\ retrieval_results = <<>>

Called(kind) == \E p \in 1..Len(rc_trace) : rc_trace[p].kind = kind

NoEvidenceResponse ==
    /\ response.answer = "No relevant evidence found in the database."
    /\ response.sources = <<>>
    /\ response.num_sources = 0

\* C15 as stated: when retrieval yields no candidate, invoke does not raise,
\* answers that no relevant evidence was found, with no sources and
\* num_sources = 0, and the text-generation service is not called at all
\* during the invocation
C15_NoServiceCallAtAll ==
    RetrievedNothing =>
        /\ rc_pc # "generate_raised"
        /\ rc_pc = "done" => NoEvidenceResponse
        /\ ~Called("llm_generate")
        /\ ~Called("llm_decompose")

\* C15, amended: when retrieval yields no candidate, invoke does not raise,
\* answers that no relevant evidence was found, with no sources and
\* num_sources = 0, and self.llm.generate is not called; the decomposition
\* of the query may have called the text-generation service before
C15_NoEvidenceNoGeneration ==
    RetrievedNothing =>
        /\ rc_pc # "generate_raised"
        /\ rc_pc = "done" => NoEvidenceResponse
        /\ ~Called("llm_generate")

C15_Witness ==
    /\ rc_pc = "done"
    /\ retrieval_results = <<>>
    /\ Called("llm_decompose")
    /\ Called("search")
    /\ NoEvidenceResponse

\* C17: a parent chunk is fetched only after the fusion of the request has
\* completed, and only for a candidate that survived fusion and reranking
C17_EnrichmentAfterRerank ==
    /\ \A p \in 1..Len(rc_trace) :
          rc_trace[p].kind = "fetch_parent" =>
              \E q \in 1..(p - 1) : rc_trace[q].kind = "fusion"
    /\ rc_pc = "done" =>
          \A p \in 1..Len(rc_trace) :
              rc_trace[p].kind = "fetch_parent" =>
                  \E d \in 1..Len(rc_documents) : rc_documents[d].chunk_id = rc_trace[p].chunk

----------------------------------------------------------------------------
(* Claims: MedicalQueryRetriever *)

\* C16: whatever queries the retriever object handled before, the filters
\* applied to a query (statistical_only, section filter, quality filter) are
\* those it would get as the first query of the object
C16_FiltersAsIfFirstQuery ==
    lr_count >= 1 => lr_applied = AdjustFilters(DefaultFilters, lr_query)

----------------------------------------------------------------------------
(* Claims: MedicalQueryDecomposer *)

\* decompose returned after an LLM call that raised or answered malformed output
LLMFailedAndReturned == dc_pc = "done" /\ dc_llm \in LLMFailures

\* the intents of the returned sub-queries, in order
ReturnedIntents == [j \in 1..Len(dc_sub_queries) |-> dc_sub_queries[j].intent]

\* the families whose keywords the query matches, in the order effectiveness,
\* safety, comparison, methodology, statistical
FamiliesInOrder ==
    LET Matched(j) == ContainsAny(dc_query, INTENT_FAMILIES[j].keywords)
        order == <<"effectiveness", "safety", "comparison", "methodology", "statistical">>
        Keep(intent) == \E j \in 1..5 : INTENT_FAMILIES[j].intent = intent /\ Matched(j)
    IN  SelectSeq(order, Keep)

\* C18 as stated: after a failed LLM call decompose returns exactly one
\* SubQuery per detected intent family, in detection order.
C18_OnePerFamilyAlways ==
    LLMFailedAndReturned => ReturnedIntents = FamiliesInOrder

\* C18, amended: when decomposition is warranted and the LLM call raises or
\* returns malformed output, decompose returns (it does not raise) one SubQuery
\* per detected intent family in detection order, and, when the query matches
\* no family, a single SubQuery whose text is the whole query.
C18_KeywordFallback ==
    LLMFailedAndReturned =>
        IF FamiliesInOrder = <<>>
        THEN Len(dc_sub_queries) = 1 /\ dc_sub_queries[1].text = "query"
        ELSE ReturnedIntents = FamiliesInOrder

C18_Witness ==
    /\ LLMFailedAndReturned
    /\ dc_llm = "invalid_json"
    /\ FamiliesInOrder = <<>>
    /\ Len(dc_sub_queries) = 1

\* the query matches at least two of the five families
TwoFamilies == Len(FamiliesInOrder) >= 2

\* decompose returned the query itself as its only sub-query
WholeQueryOnly == Len(dc_sub_queries) = 1 /\ dc_sub_queries[1].text = "query"

\* C19 as stated: should_decompose is true if and only if the query matches
\* two families, or contains compare, versus or vs, or contains both or
\* as well as; every other query gives a single SubQuery of the whole query.
C19_ThreeTriggersOnly ==
    LET stated == \/ TwoFamilies
                  \/ ContainsAny(dc_query, {"compare", "versus", "vs"})
                  \/ ContainsAny(dc_query, {"both", "as well as"})
    IN  dc_pc = "done" =>
            /\ ShouldDecompose(dc_query) <=> stated
            /\ ~stated => WholeQueryOnly

\* C19, amended: should_decompose is true if and only if the query matches two
\* families, or contains " and " together with effective, safe or compare, or
\* contains compare, versus or " vs " (between spaces), or contains both,
\* as well as or along with; every other query gives a single SubQuery whose
\* text is the query.
C19_WarrantedIff ==
    LET warranted ==
            \/ TwoFamilies
            \/ /\ ContainsAny(dc_query, {" and "})
               /\ ContainsAny(dc_query, {"effective", "safe", "compare"})
            \/ ContainsAny(dc_query, {"compare", "versus", " vs "})
            \/ ContainsAny(dc_query, {"both", "as well as", "along with"})
    IN  dc_pc = "done" =>
            /\ ShouldDecompose(dc_query) <=> warranted
            /\ ~warranted => WholeQueryOnly

C19_Witness ==
    /\ dc_pc = "done"
    /\ dc_query = {" and ", "safe"}
    /\ ~TwoFamilies
    /\ dc_llm = "ok"
    /\ Len(dc_sub_queries) = 2

\* C20: every SubQuery decompose returns has an intent among effectiveness,
\* safety, comparison, methodology, statistical, general.
C20_IntentAmongSix ==
    dc_pc = "done" =>
        \A j \in 1..Len(dc_sub_queries) :
            dc_sub_queries[j].intent \in {"effectiveness", "safety", "comparison",
                                          "methodology", "statistical", "general"}

\* C21: for every SubQuery decompose returns, section_hint is the fixed map
\* value of its intent (effectiveness, safety and statistical give results,
\* methodology gives methods, general gives none) and statistical_only is
\* true exactly when the intent is statistical.
C21_HintAndFlagFromIntent ==
    dc_pc = "done" =>
        \A j \in 1..Len(dc_sub_queries) :
            LET sq == dc_sub_queries[j]
            IN  /\ sq.intent \in {"effectiveness", "safety", "statistical"}
                     => sq.section_hint = "results"
                /\ sq.intent = "methodology" => sq.section_hint = "methods"
                /\ sq.intent = "general" => sq.section_hint = ""
                /\ sq.statistical_only <=> sq.intent = "statistical"

----------------------------------------------------------------------------
(* Claims: MedicalQueryRewriter *)

\* the variants of one strategy
VariantsOf(strategy) ==
    SelectSeq(rw_variants, LAMBDA v : v.strategy = strategy)

\* the generation-service call of the step was made and raised
CallRaised(step) ==
    \E j \in 1..Len(rw_calls) : rw_calls[j] = ServiceCall(step, "raised")

\* the generation-service call of the step was made and returned
CallReturned(step) ==
    \E j \in 1..Len(rw_calls) : rw_calls[j] = ServiceCall(step, "ok")

\* C22: rewrite_query goes on to its end when a generation-service call
\* fails, and its variants always start with the original query at weight
\* 1.0: a failed reformulation call contributes no llm_reformulation variant,
\* a successful one at most num_variants of them at weight 0.9, a failed HyDE
\* call contributes no hyde variant, the original query is not added a second
\* time, and every weight lies in (0, 1].
C22_FailuresAreNotFatal ==
    rw_pc \in {"llm", "hyde", "done"} =>
        /\ rw_variants # <<>>
        /\ rw_variants[1] = QueryVariant("query", "original", 10)
        /\ \A j \in 1..Len(VariantsOf("hyde")) : VariantsOf("hyde")[j].text # "query"
        /\ CallRaised("reformulate") => VariantsOf("llm_reformulation") = <<>>
        /\ CallReturned("reformulate") =>
              /\ Len(VariantsOf("llm_reformulation")) <= rw_num_variants
              /\ \A j \in 1..Len(VariantsOf("llm_reformulation")) :
                    VariantsOf("llm_reformulation")[j].weight = 9
        /\ CallRaised("hyde") => (rw_pc = "done" /\ VariantsOf("hyde") = <<>>)
        /\ \A j \in 1..Len(rw_variants) :
              rw_variants[j].weight > 0 /\ rw_variants[j].weight <= 10

C22_Witness ==
    /\ rw_pc = "done"
    /\ CallRaised("reformulate")
    /\ CallRaised("hyde")
    /\ Len(rw_variants) = 2

----------------------------------------------------------------------------
(* Claims: CochraneRetriever, hierarchical enrichment *)

\* the content is one of the parts of enriched_content
ContainsContent(result) ==
    \E j \in 1..Len(result.enriched_content) : result.enriched_content[j] = result.content

\* enriched_content is the content and nothing else
ContentUnchanged(result) == result.enriched_content = <<result.content>>

\* what C23 says of one enriched candidate
EnrichedByLevel(result) ==
    /\ ContainsContent(result)
    /\ result.level \in {"SECTION", "DOCUMENT"} => ContentUnchanged(result)
    /\ (result.level = "PARAGRAPH" /\ result.fetch \in {"raised", "no_objects"})
          => ContentUnchanged(result)

\* C23: every candidate search returns, and every candidate the enrichment
\* has passed, contains its content in enriched_content; for SECTION and
\* DOCUMENT candidates enriched_content equals content; for a PARAGRAPH whose
\* parent fetch fails or finds no parent it equals content too, and the search
\* does not raise.
C23_EnrichmentByLevel ==
    /\ en_pc # "raised"
    /\ en_pc \in {"enrich", "done"} =>
          \A j \in 1..Len(en_results) : j < en_i => EnrichedByLevel(en_results[j])
    /\ en_pc = "done" =>
          \A j \in 1..Len(en_returned) : EnrichedByLevel(en_returned[j])

C23_Witness ==
    /\ en_pc = "done"
    /\ \E j \in 1..Len(en_returned) :
          /\ en_returned[j].level = "PARAGRAPH"
          /\ en_returned[j].fetch = "raised"
          /\ ContentUnchanged(en_returned[j])

----------------------------------------------------------------------------
(* Claims: MultiQueryRetriever, the order of the merged candidates *)

\* the request went through the loop over two or more sub-queries and
\* returned
MultiDone == mq_pc = "done" /\ Len(sub_queries) >= 2

\* the deduplicated candidates of the request
Deduplicated == MergeAndDeduplicate(mq_all_results)

\* the candidates of one intent, nearest first
GroupOf(intent) ==
    SortedByDistance(SelectSeq(Deduplicated, LAMBDA r : r.sub_query_intent = intent))

\* the intent groups, in the lexical order of the intent names
IntentGroups == [t \in 1..Len(IntentOrder) |-> GroupOf(IntentOrder[t])]

\* where the k-th candidate of the t-th group stands in the round-robin: after
\* the first k - 1 members of every group, and after the k-th member of every
\* group of an earlier intent
RoundRobinPosition(groups, t, k) ==
    SumSeq([u \in 1..Len(groups) |-> Min(Len(groups[u]), k - 1)])
    + Cardinality({u \in 1..t : Len(groups[u]) >= k})

\* C24: for a request with two or more sub-queries, retrieve returns the first
\* top_k entries of the round-robin over the intent groups of the deduplicated
\* candidates, each group sorted by distance ascending, the groups visited in
\* lexical order of the intent name.
C24_RoundRobinByIntent ==
    MultiDone =>
        LET groups == IntentGroups
        IN  /\ Len(final_results) = Min(mq_top_k, SumSeq([t \in 1..Len(groups) |-> Len(groups[t])]))
            /\ \A t \in 1..Len(groups) :
                  \A k \in 1..Len(groups[t]) :
                      RoundRobinPosition(groups, t, k) <= Len(final_results) =>
                          final_results[RoundRobinPosition(groups, t, k)] = groups[t][k]

C24_Witness ==
    /\ MultiDone
    /\ Len(final_results) = 2
    /\ Len(final_results) < Len(Deduplicated)
    /\ final_results[1].sub_query_intent # final_results[2].sub_query_intent
    /\ final_results[1].distance > final_results[2].distance

\* C25: the first element of the order _sort_by_relevance_and_diversity gives
\* is a candidate with the minimum distance among all candidates passed in.
C25_FirstIsNearest ==
    (MultiDone /\ final_results # <<>>) =>
        \A j \in 1..Len(Deduplicated) :
            final_results[1].distance <= Deduplicated[j].distance

----------------------------------------------------------------------------
(* Claims: decompose always answers; priorities and the merge *)

\* C26: decompose never raises and returns a non-empty list of SubQuery,
\* whatever the query, whatever the LLM service does, with LLM decomposition
\* enabled or disabled.
C26_NonEmptyNeverRaises ==
    /\ dc_pc \in {"none", "idle", "done"}
    /\ dc_pc = "done" =>
          /\ Len(dc_sub_queries) >= 1
          /\ \A j \in 1..Len(dc_sub_queries) :
                DOMAIN dc_sub_queries[j] =
                    {"text", "intent", "priority", "statistical_only", "section_hint"}

C26_Witness ==
    /\ dc_pc = "done"
    /\ dc_enable_llm
    /\ dc_llm = "raised"
    /\ DetectedFamilies(dc_query) = <<>>
    /\ Len(dc_sub_queries) = 1

\* the occurrences of a chunk among all the results retrieved, in the order
\* they were retrieved
OccurrencesOf(chunk_id) ==
    SelectSeq(mq_all_results, LAMBDA r : r.chunk_id = chunk_id)

\* the earliest occurrence among those at the minimum distance
EarliestNearest(chunk_id) ==
    LET occ == OccurrencesOf(chunk_id)
        first == CHOOSE j \in 1..Len(occ) :
                    /\ \A u \in 1..Len(occ) : occ[j].distance <= occ[u].distance
                    /\ \A u \in 1..(j - 1) : occ[u].distance > occ[j].distance
    IN  occ[first]

\* C27: every SubQuery decompose produces has priority 1, and so, in a request
\* of MultiQueryRetriever.retrieve, the occurrence kept for each chunk_id has
\* the minimum distance over all its occurrences and is the earliest retrieved
\* among those.
C27_PriorityOneKeepsNearest ==
    /\ dc_pc = "done" =>
          \A j \in 1..Len(dc_sub_queries) : dc_sub_queries[j].priority = 1
    /\ \A j \in 1..Len(sub_queries) : sub_queries[j].priority = 1
    /\ MultiDone =>
          \A j \in 1..Len(final_results) :
              final_results[j] = EarliestNearest(final_results[j].chunk_id)

C27_Witness ==
    /\ MultiDone
    /\ \E j \in 1..Len(final_results) :
          LET occ == OccurrencesOf(final_results[j].chunk_id)
          IN  /\ Len(occ) = 2
              /\ occ[1].distance < occ[2].distance
              /\ occ[2].distance - occ[1].distance < SIMILAR_DISTANCE
              /\ final_results[j] = occ[1]


\* the rearrangements of a list
Rearrangements(s) ==
    LET perms == {f \in [1..Len(s) -> 1..Len(s)] : \A i, j \in 1..Len(s) : f[i] = f[j] => i = j}
    IN  {[j \in 1..Len(s) |-> s[f[j]]] : f \in perms}

\* the occurrences a merge kept
KeptSet(merged) == {merged[j] : j \in 1..Len(merged)}

\* C28: _merge_and_deduplicate keeps the same occurrence of every chunk_id
\* whatever the order of the list it is given.
C28_MergeOrderIndependent ==
    md_pc = "done" =>
        \A other \in Rearrangements(md_results) :
            KeptSet(MergeAndDeduplicate(other)) = KeptSet(md_merged)

----------------------------------------------------------------------------
(* Claims: QueryFusionRetriever, the candidate returned for a chunk *)

\* C29: the candidate returned for a fused chunk_id is its occurrence in the
\* results of the first variant whose search returned it; a later variant's
\* occurrence never replaces it, even at a lower distance.
C29_FirstOccurrenceReturned ==
    qf_pc = "done" =>
        \A j \in 1..Len(fused_results) :
            fused_results[j] = Flattened(qf_searched)[FirstSeen(fused_results[j].chunk_id)]

C29_Witness ==
    /\ qf_pc = "done"
    /\ \E j \in 1..Len(fused_results) :
          \E p \in 1..Len(Flattened(qf_searched)) :
              /\ Flattened(qf_searched)[p].chunk_id = fused_results[j].chunk_id
              /\ Flattened(qf_searched)[p].distance < fused_results[j].distance

----------------------------------------------------------------------------
(* Claims: IndexingPipeline *)

\* the iterations of the run so far that went to the counter
CountedAs(counter) == {j \in 1..Len(ix_log) : ix_log[j].counted = counter}

\* what C30 says of one iteration: marked only with both inserts reporting
\* success, and counted as failed and left unmarked otherwise
MarkedOnlyOnSuccess(entry) ==
    \/ entry.counted = "skipped" /\ ~entry.marked
    \/ /\ entry.metadata_success /\ entry.chunks_success
       /\ entry.marked
       /\ entry.counted = "successful"
    \/ /\ ~(entry.metadata_success /\ entry.chunks_success)
       /\ ~entry.marked
       /\ entry.counted = "failed"

\* C30: in index_processed_documents and batch_index mark_as_processed is
\* called for a document only after insert_document_metadata and insert_chunks
\* both reported success for it in the same iteration; when an insert fails or
\* an exception occurs the document is counted as failed and not marked; the
\* history grows by no other document.
C30_MarkedOnlyAfterBothInserts ==
    /\ [](/\ \A j \in 1..Len(ix_log) : MarkedOnlyOnSuccess(ix_log[j])
          /\ ix_stats.failed = Cardinality(CountedAs("failed"))
          /\ ix_stats.successful = Cardinality(CountedAs("successful")))
    /\ [][\A d \in ix_history' \ ix_history :
             /\ Len(ix_log') = Len(ix_log) + 1
             /\ ix_log'[Len(ix_log')] = Processed(d, TRUE, TRUE, TRUE, "successful")]_vars

C30_Witness ==
    /\ ix_pc = "done"
    /\ \E j \in 1..Len(ix_log) :
          /\ ix_log[j].metadata_success
          /\ ~ix_log[j].chunks_success
          /\ ~ix_log[j].marked
          /\ ix_log[j].counted = "failed"
          /\ ix_log[j].document_id \notin ix_history
    /\ \E j \in 1..Len(ix_log) : ix_log[j].marked

====
